---- MODULE Spec2Model ----
(***************************************************************************)
(* A model of pqRand: the xorshift1024* bit generator with its jump, the    *)
(* textual state codec, and the precision engine built on top of it.        *)
(*                                                                          *)
(* A 64-bit word (uint64_t) is the tuple of its 8 bytes, byte 1 the least   *)
(* significant.  All word arithmetic is modulo 2^64.                        *)
(***************************************************************************)
EXTENDS Integers, Sequences, FiniteSets, TLC

----------------------------------------------------------------------------
(* 64-bit words *)

word_size == 64
state_size == 16

Pow2(k) == 2^k

\* x ^ y on 4-bit values: Xor4[x + 1][y + 1]
Xor4 ==
  <<   << 0,  1,  2,  3,  4,  5,  6,  7,  8,  9, 10, 11, 12, 13, 14, 15>>,
     << 1,  0,  3,  2,  5,  4,  7,  6,  9,  8, 11, 10, 13, 12, 15, 14>>,
     << 2,  3,  0,  1,  6,  7,  4,  5, 10, 11,  8,  9, 14, 15, 12, 13>>,
     << 3,  2,  1,  0,  7,  6,  5,  4, 11, 10,  9,  8, 15, 14, 13, 12>>,
     << 4,  5,  6,  7,  0,  1,  2,  3, 12, 13, 14, 15,  8,  9, 10, 11>>,
     << 5,  4,  7,  6,  1,  0,  3,  2, 13, 12, 15, 14,  9,  8, 11, 10>>,
     << 6,  7,  4,  5,  2,  3,  0,  1, 14, 15, 12, 13, 10, 11,  8,  9>>,
     << 7,  6,  5,  4,  3,  2,  1,  0, 15, 14, 13, 12, 11, 10,  9,  8>>,
     << 8,  9, 10, 11, 12, 13, 14, 15,  0,  1,  2,  3,  4,  5,  6,  7>>,
     << 9,  8, 11, 10, 13, 12, 15, 14,  1,  0,  3,  2,  5,  4,  7,  6>>,
     <<10, 11,  8,  9, 14, 15, 12, 13,  2,  3,  0,  1,  6,  7,  4,  5>>,
     <<11, 10,  9,  8, 15, 14, 13, 12,  3,  2,  1,  0,  7,  6,  5,  4>>,
     <<12, 13, 14, 15,  8,  9, 10, 11,  4,  5,  6,  7,  0,  1,  2,  3>>,
     <<13, 12, 15, 14,  9,  8, 11, 10,  5,  4,  7,  6,  1,  0,  3,  2>>,
     <<14, 15, 12, 13, 10, 11,  8,  9,  6,  7,  4,  5,  2,  3,  0,  1>>,
     <<15, 14, 13, 12, 11, 10,  9,  8,  7,  6,  5,  4,  3,  2,  1,  0>> >>

\* x ^ y on bytes, from the two halves of each
Xor8Of(a, b) == 16 * Xor4[(a \div 16) + 1][(b \div 16) + 1] + Xor4[(a % 16) + 1][(b % 16) + 1]

\* <<a ^ 0, a ^ 1, ..., a ^ 255>>
Xor8Row(a) == SubSeq([b \in 1..256 |-> Xor8Of(a, b - 1)], 1, 256)

\* x ^ y on bytes, tabulated: Xor8Table[x + 1][y + 1]
Xor8Table == SubSeq([a \in 1..256 |-> Xor8Row(a - 1)], 1, 256)

\* x ^ y on bytes
Xor8(a, b) == Xor8Table[a + 1][b + 1]

Zero == <<0, 0, 0, 0, 0, 0, 0, 0>>

\* the word of a small non-negative integer (n < 2^31)
WordOf(n) ==
  <<n % 256, (n \div 256) % 256, (n \div 65536) % 256, (n \div 16777216) % 256, 0, 0, 0, 0>>

\* x ^ y
XOR(x, y) ==
  <<Xor8Table[x[1] + 1][y[1] + 1], Xor8Table[x[2] + 1][y[2] + 1],
    Xor8Table[x[3] + 1][y[3] + 1], Xor8Table[x[4] + 1][y[4] + 1],
    Xor8Table[x[5] + 1][y[5] + 1], Xor8Table[x[6] + 1][y[6] + 1],
    Xor8Table[x[7] + 1][y[7] + 1], Xor8Table[x[8] + 1][y[8] + 1]>>

Or8(a, b) == (a + b + Xor8(a, b)) \div 2

And8(a, b) == (a + b - Xor8(a, b)) \div 2

\* x | y
OR(x, y) ==
  <<Or8(x[1], y[1]), Or8(x[2], y[2]), Or8(x[3], y[3]), Or8(x[4], y[4]),
    Or8(x[5], y[5]), Or8(x[6], y[6]), Or8(x[7], y[7]), Or8(x[8], y[8])>>

\* x & y
AND(x, y) ==
  <<And8(x[1], y[1]), And8(x[2], y[2]), And8(x[3], y[3]), And8(x[4], y[4]),
    And8(x[5], y[5]), And8(x[6], y[6]), And8(x[7], y[7]), And8(x[8], y[8])>>

\* q zero bytes
ZeroBytes(q) == SubSeq(Zero, 1, q)

\* x << k, for 0 <= k < 64: whole bytes first, then the remaining bits
ShiftLeft(x, k) ==
  LET q == k \div 8
      m == Pow2(k % 8)
      d == 256 \div m
      y == ZeroBytes(q) \o SubSeq(x, 1, 8 - q)
  IN  <<((y[1] * m) % 256),
        ((y[2] * m) % 256) + (y[1] \div d), ((y[3] * m) % 256) + (y[2] \div d),
        ((y[4] * m) % 256) + (y[3] \div d), ((y[5] * m) % 256) + (y[4] \div d),
        ((y[6] * m) % 256) + (y[5] \div d), ((y[7] * m) % 256) + (y[6] \div d),
        ((y[8] * m) % 256) + (y[7] \div d)>>

\* x >> k, for 0 <= k < 64
ShiftRight(x, k) ==
  LET q == k \div 8
      m == Pow2(k % 8)
      d == 256 \div m
      y == SubSeq(x, q + 1, 8) \o ZeroBytes(q)
  IN  <<(y[1] \div m) + ((y[2] * d) % 256), (y[2] \div m) + ((y[3] * d) % 256),
        (y[3] \div m) + ((y[4] * d) % 256), (y[4] \div m) + ((y[5] * d) % 256),
        (y[5] \div m) + ((y[6] * d) % 256), (y[6] \div m) + ((y[7] * d) % 256),
        (y[7] \div m) + ((y[8] * d) % 256), (y[8] \div m)>>

\* bit i of x (bit 0 the least significant)
Bit(x, i) == (x[(i \div 8) + 1] \div Pow2(i % 8)) % 2

\* x < y as unsigned integers
RECURSIVE LessFrom(_, _, _)
LessFrom(x, y, j) ==
  IF j < 1 THEN FALSE
  ELSE IF x[j] # y[j] THEN x[j] < y[j]
  ELSE LessFrom(x, y, j - 1)

Less(x, y) == LessFrom(x, y, 8)

\* column j of the schoolbook product x * y
RECURSIVE MulColumn(_, _, _, _)
MulColumn(x, y, j, i) ==
  IF i > j THEN 0 ELSE x[i] * y[j + 1 - i] + MulColumn(x, y, j, i + 1)

\* x * y modulo 2^64, carries propagated upward
RECURSIVE MulCarry(_, _, _, _)
MulCarry(x, y, j, carry) ==
  IF j > 8 THEN << >>
  ELSE LET s == MulColumn(x, y, j, 1) + carry
       IN  <<s % 256>> \o MulCarry(x, y, j + 1, s \div 256)

Mul(x, y) == MulCarry(x, y, 1, 0)

----------------------------------------------------------------------------
(* xorshift1024_star *)

\* UINT64_C(1181783497276652981) = 0x106689D45497FDB5, least significant byte first
Multiplier == <<181, 253, 151, 84, 212, 137, 102, 16>>

\* The jump table, one row per word, most significant hex digit first
JUMP ==
  << <<8, 4, 2, 4, 2, 15, 9, 6, 14, 12, 10, 9, 12, 4, 1, 13>>,    \* 0x84242f96eca9c41d
     <<10, 3, 12, 6, 5, 11, 8, 7, 7, 6, 15, 9, 6, 8, 5, 5>>,      \* 0xa3c65b8776f96855
     <<5, 11, 3, 4, 10, 3, 9, 15, 0, 7, 0, 11, 5, 8, 3, 7>>,      \* 0x5b34a39f070b5837
     <<4, 4, 8, 9, 10, 15, 15, 12, 14, 4, 15, 3, 1, 10, 1, 14>>,  \* 0x4489affce4f31a1e
     <<2, 15, 15, 14, 14, 11, 0, 10, 4, 8, 3, 1, 6, 15, 4, 0>>,   \* 0x2ffeeb0a48316f40
     <<13, 12, 2, 13, 9, 8, 9, 1, 15, 14, 6, 8, 12, 0, 2, 2>>,    \* 0xdc2d9891fe68c022
     <<3, 6, 5, 9, 1, 3, 2, 11, 11, 1, 2, 15, 14, 10, 7, 0>>,     \* 0x3659132bb12fea70
     <<10, 10, 12, 1, 7, 13, 8, 14, 15, 10, 4, 3, 12, 10, 11, 8>>,\* 0xaac17d8efa43cab8
     <<12, 4, 12, 11, 8, 1, 5, 5, 9, 0, 9, 8, 9, 11, 1, 3>>,      \* 0xc4cb815590989b13
     <<5, 14, 14, 9, 7, 5, 2, 8, 3, 13, 7, 1, 12, 9, 3, 11>>,     \* 0x5ee975283d71c93b
     <<6, 9, 1, 5, 4, 8, 12, 8, 6, 12, 1, 11, 13, 5, 4, 0>>,      \* 0x691548c86c1bd540
     <<7, 9, 1, 0, 12, 4, 1, 13, 1, 0, 10, 1, 14, 6, 10, 5>>,     \* 0x7910c41d10a1e6a5
     <<0, 11, 5, 15, 12, 6, 4, 5, 6, 3, 11, 3, 14, 2, 10, 8>>,    \* 0x0b5fc64563b3e2a8
     <<0, 4, 7, 15, 7, 6, 8, 4, 14, 9, 15, 12, 9, 4, 9, 13>>,     \* 0x047f7684e9fc949d
     <<11, 9, 9, 1, 8, 1, 15, 2, 13, 8, 15, 6, 8, 5, 12, 10>>,    \* 0xb99181f2d8f685ca
     <<2, 8, 4, 6, 0, 0, 14, 3, 15, 3, 0, 14, 3, 8, 12, 3>> >>    \* 0x284600e3f30e38c3

\* JUMP[i] & 1ULL << b
JumpBit(i, b) == (JUMP[i + 1][16 - (b \div 4)] \div Pow2(b % 4)) % 2 = 1

\* state[i] of the C array is state[i + 1] of the tuple
Index == 0..(state_size - 1)

\* The new word from s0 = state[p] and a = s1 ^ s1 << 31
Scramble(s0, a) == XOR(XOR(XOR(a, s0), ShiftRight(a, 11)), ShiftRight(s0, 30))

\* s1 = s1 << 31, the low bits lost
SmearShiftedOut(s1) == ShiftLeft(s1, 31)

\* s1 ^= s1 << 31
Smear(s1) == XOR(s1, ShiftLeft(s1, 31))

\* operator()() once s0 = state[p] has been read:
\* state[p = (p + 1) & 15] = the scrambled word
AdvanceFrom(g, s0) ==
  [state |-> [g.state EXCEPT ![((g.p + 1) % 16) + 1] =
                                Scramble(s0, Smear(g.state[((g.p + 1) % 16) + 1]))],
   p |-> (g.p + 1) % 16]

\* The state change of operator()(): g is [state, p] with p < state_size
Advance(g) == AdvanceFrom(g, g.state[g.p + 1])

\* The word operator()() returns, read off the state it leaves
Result(g) == Mul(g.state[g.p + 1], Multiplier)

\* AccumulateAt without the rotation: t[j] ^ state[j]
AccumulateAtUnrotated(t, g, j) == XOR(t[j + 1], g.state[j + 1])

\* t[j] ^ state[(j + p) & 15]
AccumulateAt(t, g, j) == XOR(t[j + 1], g.state[((j + g.p) % 16) + 1])

\* t[j] ^= state[(j + p) & 15] for every j
Accumulate(t, g) ==
  <<AccumulateAt(t, g, 0), AccumulateAt(t, g, 1), AccumulateAt(t, g, 2), AccumulateAt(t, g, 3),
    AccumulateAt(t, g, 4), AccumulateAt(t, g, 5), AccumulateAt(t, g, 6), AccumulateAt(t, g, 7),
    AccumulateAt(t, g, 8), AccumulateAt(t, g, 9), AccumulateAt(t, g, 10), AccumulateAt(t, g, 11),
    AccumulateAt(t, g, 12), AccumulateAt(t, g, 13), AccumulateAt(t, g, 14), AccumulateAt(t, g, 15)>>

\* the pass with the call inside the if: the generator steps only if
\* JUMP[i] has bit b
JumpBit1Guarded(i, b, tg) ==
  IF JumpBit(i, b) THEN <<Accumulate(tg[1], tg[2]), Advance(tg[2])>> ELSE tg

\* One pass of the inner loop: accumulate if JUMP[i] has bit b, then step
\* tg is the pair <<t, generator>>
JumpBit1(i, b, tg) ==
  <<IF JumpBit(i, b) THEN Accumulate(tg[1], tg[2]) ELSE tg[1], Advance(tg[2])>>

\* passes of the two nested loops, numbered in the order they run
JumpPassCount == state_size * word_size

\* pass k is the one with i = k / 64 and b = k % 64
JumpPass(k, tg) == JumpBit1(k \div word_size, k % word_size, tg)

RECURSIVE JumpPasses(_, _, _)

\* the passes from lo on, entered once those before lo are done
JumpPassesFrom(lo, hi, done) == CASE Len(done) = 2 -> JumpPasses(lo, hi, done)

\* for(i = 0; i < 16; i++) for(b = 0; b < 64; b++): passes lo .. hi - 1 in
\* order, the first half of them before the second
JumpPasses(lo, hi, tg) ==
  IF hi - lo = 1 THEN JumpPass(lo, tg)
  ELSE JumpPassesFrom((lo + hi) \div 2, hi, JumpPasses(lo, (lo + hi) \div 2, tg))

\* state[(j + p) & 15] = t[j]: the word stored at index k is t[(k - p) & 15]
StoreAt(t, p, k) == t[((k + state_size - p) % 16) + 1]

\* for(j = 0; j < 16; j++) state[(j + p) & 15] = t[j]
Store(t, p) ==
  [state |->
     <<StoreAt(t, p, 0), StoreAt(t, p, 1), StoreAt(t, p, 2), StoreAt(t, p, 3),
       StoreAt(t, p, 4), StoreAt(t, p, 5), StoreAt(t, p, 6), StoreAt(t, p, 7),
       StoreAt(t, p, 8), StoreAt(t, p, 9), StoreAt(t, p, 10), StoreAt(t, p, 11),
       StoreAt(t, p, 12), StoreAt(t, p, 13), StoreAt(t, p, 14), StoreAt(t, p, 15)>>,
   p |-> p]

StoreJumped(tg) == Store(tg[1], tg[2].p)

\* uint64_t t[16] = {0}
ZeroState ==
  <<Zero, Zero, Zero, Zero, Zero, Zero, Zero, Zero,
    Zero, Zero, Zero, Zero, Zero, Zero, Zero, Zero>>

\* Jump()
Jump(g) == StoreJumped(JumpPasses(0, JumpPassCount, <<ZeroState, g>>))

\* one more round of a loop over Jump(), entered once the jump is done
RECURSIVE JumpTimesOnceMore(_, _)
JumpTimesOnceMoreFrom(done, nTimes) ==
  IF nTimes = 0 THEN done
  ELSE CASE done.p \in Index -> JumpTimesOnceMore(done, nTimes - 1)

\* JumpTimes with the loop run once too often: for(n = 0; n <= nTimes; ++n)
JumpTimesOnceMore(g, nTimes) == JumpTimesOnceMoreFrom(Jump(g), nTimes)

RECURSIVE JumpTimes(_, _)

\* ++n once the jump is done
JumpTimesFrom(done, nTimes) == CASE done.p \in Index -> JumpTimes(done, nTimes - 1)

\* Jump(nTimes): for(n = 0; n < nTimes; ++n) Jump();
JumpTimes(g, nTimes) ==
  IF nTimes = 0 THEN g ELSE JumpTimesFrom(Jump(g), nTimes)

\* n calls of operator()()
RECURSIVE AdvanceTimes(_, _)
AdvanceTimes(g, n) ==
  IF n = 0 THEN g ELSE AdvanceTimes(Advance(g), n - 1)

----------------------------------------------------------------------------
(* State strings: whitespace-separated tokens, each a sequence of characters. *)
(* A character is a decimal digit 0..9, or NotADigit for any other.           *)

NotADigit == 10

\* remainder of (bytes 8 .. j of x) divided by ten
RECURSIVE Rem10(_, _)
Rem10(x, j) == IF j > 8 THEN 0 ELSE (Rem10(x, j + 1) * 256 + x[j]) % 10

\* byte j of x / 10
Div10At(x, j) == (Rem10(x, j + 1) * 256 + x[j]) \div 10

\* x / 10
Div10(x) ==
  <<Div10At(x, 1), Div10At(x, 2), Div10At(x, 3), Div10At(x, 4),
    Div10At(x, 5), Div10At(x, 6), Div10At(x, 7), Div10At(x, 8)>>

\* the decimal digits of x > 0, most significant first
RECURSIVE Digits(_)
Digits(x) == IF x = Zero THEN << >> ELSE Digits(Div10(x)) \o <<Rem10(x, 1)>>

\* stream << word
FormatWord(x) == IF x = Zero THEN <<0>> ELSE Digits(x)

\* the carry into byte j of x * 10 + d
RECURSIVE Carry10(_, _, _)
Carry10(x, d, j) ==
  IF j = 1 THEN d ELSE (x[j - 1] * 10 + Carry10(x, d, j - 1)) \div 256

\* byte j of x * 10 + d
MulAdd10At(x, d, j) == (x[j] * 10 + Carry10(x, d, j)) % 256

\* x * 10 + d modulo 2^64
MulAdd10(x, d) ==
  <<MulAdd10At(x, d, 1), MulAdd10At(x, d, 2), MulAdd10At(x, d, 3), MulAdd10At(x, d, 4),
    MulAdd10At(x, d, 5), MulAdd10At(x, d, 6), MulAdd10At(x, d, 7), MulAdd10At(x, d, 8)>>

\* The number the leading digits of a token spell: [ok, value, used].  The
\* extraction stops before a character that is no digit, and fails when there
\* was no digit before it or when the number does not fit 64 bits.
RECURSIVE ParseFrom(_, _, _)
ParseFrom(token, k, acc) ==
  IF k > Len(token) \/ token[k] = NotADigit
  THEN [ok |-> k > 1, value |-> acc, used |-> k - 1]
  ELSE IF Carry10(acc, token[k], 9) > 0
       THEN [ok |-> FALSE, value |-> acc, used |-> k - 1]
       ELSE ParseFrom(token, k + 1, MulAdd10(acc, token[k]))

ParseToken(token) == ParseFrom(token, 1, Zero)

\* std::stringstream stream(seed): the tokens not yet read, and the failbit
OpenStream(text) == [rest |-> text, fail |-> FALSE]

\* the stream after `used` characters of its first token were extracted
Consumed(stream, used) ==
  IF used = Len(Head(stream.rest)) THEN [stream EXCEPT !.rest = Tail(@)]
  ELSE [stream EXCEPT !.rest = <<SubSeq(Head(@), used + 1, Len(Head(@)))>> \o Tail(@)]

\* the extraction of the parsed first token
ReadParsed(stream, parsed) ==
  IF parsed.ok
  THEN [ok |-> TRUE, value |-> parsed.value, stream |-> Consumed(stream, parsed.used)]
  ELSE [ok |-> FALSE, value |-> Zero, stream |-> [stream EXCEPT !.fail = TRUE]]

\* stream >> word: [ok, value, stream].  A failed extraction sets the failbit,
\* and every later extraction fails too.
ReadWord(stream) ==
  IF stream.fail \/ stream.rest = << >>
  THEN [ok |-> FALSE, value |-> Zero, stream |-> [stream EXCEPT !.fail = TRUE]]
  ELSE ReadParsed(stream, ParseToken(Head(stream.rest)))

\* The errors thrown while seeding, by what their messages say
NotEnoughWords == "not enough words to fill state"
NoStateSize == "state size not supplied"
WrongStateSize == "wrong state size"
PTooLarge == "p is larger than state_size"
NoCacheMask == "bitCache stored in seed, but not cacheMask"

\* no exception
NoError == "none"

RECURSIVE ReadState(_, _, _)

\* the word extracted but not stored
ReadStateNextUnstored(i, state, got) ==
  IF got.ok THEN ReadState(i + 1, state, got.stream)
  ELSE [ok |-> FALSE, state |-> state, stream |-> got.stream]

\* gen.state[i] = word, unless the extraction failed
ReadStateNext(i, state, got) ==
  IF got.ok THEN ReadState(i + 1, [state EXCEPT ![i + 1] = got.value], got.stream)
  ELSE [ok |-> FALSE, state |-> state, stream |-> got.stream]

\* for(i = 0; i < state_size; ++i): the words from i on, [ok, state, stream]
ReadState(i, state, stream) ==
  IF i = state_size THEN [ok |-> TRUE, state |-> state, stream |-> stream]
  ELSE ReadStateNext(i, state, ReadWord(stream))

\* p left as it was when the string has none
ReadPKept(g, got) ==
  IF got.ok
  THEN IF Less(WordOf(state_size), got.value)
       THEN [error |-> PTooLarge, gen |-> g, stream |-> got.stream]
       ELSE [error |-> NoError, gen |-> [g EXCEPT !.p = got.value[1]], stream |-> got.stream]
  ELSE [error |-> NoError, gen |-> g, stream |-> got.stream]

\* if(stream >> word) { if(word > state_size) throw ...; gen.p = word; } else gen.p = 0;
ReadP(g, got) ==
  IF got.ok
  THEN IF Less(WordOf(state_size), got.value)
       THEN [error |-> PTooLarge, gen |-> g, stream |-> got.stream]
       ELSE [error |-> NoError, gen |-> [g EXCEPT !.p = got.value[1]], stream |-> got.stream]
  ELSE [error |-> NoError, gen |-> [g EXCEPT !.p = 0], stream |-> got.stream]

\* any number taken for the count
ReadCountUnchecked(g, got) ==
  IF ~got.ok THEN [error |-> NoStateSize, gen |-> g, stream |-> got.stream]
  ELSE ReadP(g, ReadWord(got.stream))

\* the token after the words must be state_size
ReadCount(g, got) ==
  IF ~got.ok THEN [error |-> NoStateSize, gen |-> g, stream |-> got.stream]
  ELSE IF got.value # WordOf(state_size)
       THEN [error |-> WrongStateSize, gen |-> g, stream |-> got.stream]
       ELSE ReadP(g, ReadWord(got.stream))

\* the words read are in the state whether or not all sixteen were there
ReadAfterState(g, words) ==
  IF words.ok THEN ReadCount([g EXCEPT !.state = words.state], ReadWord(words.stream))
  ELSE [error |-> NotEnoughWords, gen |-> [g EXCEPT !.state = words.state],
        stream |-> words.stream]

\* stream >> gen: [error, gen, stream]
Extract(stream, g) == ReadAfterState(g, ReadState(0, g.state, stream))

\* stream << gen: the sixteen words, state_size, p
Insert(g) ==
  <<FormatWord(g.state[1]), FormatWord(g.state[2]), FormatWord(g.state[3]),
    FormatWord(g.state[4]), FormatWord(g.state[5]), FormatWord(g.state[6]),
    FormatWord(g.state[7]), FormatWord(g.state[8]), FormatWord(g.state[9]),
    FormatWord(g.state[10]), FormatWord(g.state[11]), FormatWord(g.state[12]),
    FormatWord(g.state[13]), FormatWord(g.state[14]), FormatWord(g.state[15]),
    FormatWord(g.state[16]), FormatWord(WordOf(state_size)), FormatWord(WordOf(g.p))>>

----------------------------------------------------------------------------
(* engine: [gen, bitCache, cacheMask] *)

badBits == 2

\* uint64_t(1) << (numBitsPRNG - 1)
TopBit == ShiftLeft(WordOf(1), word_size - 1)

\* the sentinel one bit lower still
replenishBitCacheOneLower == ShiftLeft(WordOf(1), badBits - 2)

replenishBitCache == ShiftLeft(WordOf(1), badBits - 1)

\* DefaultInitializeBitCache()
DefaultInitializeBitCache(e) == [e EXCEPT !.cacheMask = replenishBitCache]

\* cacheMask = word, unless the extraction failed
SeedMask(e, got) ==
  IF got.ok THEN [error |-> NoError, eng |-> [e EXCEPT !.cacheMask = got.value]]
  ELSE [error |-> NoCacheMask, eng |-> e]

\* if(stream >> word) { bitCache = word; ... } else DefaultInitializeBitCache();
SeedCache(e, got) ==
  IF got.ok THEN SeedMask([e EXCEPT !.bitCache = got.value], ReadWord(got.stream))
  ELSE [error |-> NoError, eng |-> DefaultInitializeBitCache(e)]

\* the base class has been seeded, or has thrown
SeedAfterBase(e, base) ==
  IF base.error = NoError
  THEN SeedCache([e EXCEPT !.gen = base.gen], ReadWord(base.stream))
  ELSE [error |-> base.error, eng |-> [e EXCEPT !.gen = base.gen]]

\* engine::Seed_FromStream: [error, eng]
Seed_FromStream(e, stream) == SeedAfterBase(e, Extract(stream, e.gen))

\* Seed_FromString(seed)
Seed_FromString(e, text) == Seed_FromStream(e, OpenStream(text))

\* engine::WriteState_ToStream without bitCache and cacheMask
WriteStateGenOnly(e) == Insert(e.gen)

\* engine::WriteState_ToStream, GetState()
WriteState_ToStream(e) == Insert(e.gen) \o <<FormatWord(e.bitCache), FormatWord(e.cacheMask)>>

\* the refill with cacheMask = 1 << numBitsPRNG, the whole width
ReplenishShiftedOut(e) ==
  IF e.cacheMask = replenishBitCache
  THEN [gen |-> Advance(e.gen), bitCache |-> Result(Advance(e.gen)),
        cacheMask |-> ShiftLeft(WordOf(1), word_size)]
  ELSE e

\* if(cacheMask == replenishBitCache): draw bitCache afresh, cacheMask = 1 << 63
Replenish(e) ==
  IF e.cacheMask = replenishBitCache
  THEN [gen |-> Advance(e.gen), bitCache |-> Result(Advance(e.gen)), cacheMask |-> TopBit]
  ELSE e

\* decision = bool(cacheMask & bitCache); cacheMask >>= 1;
Decide(e) ==
  [decision |-> AND(e.cacheMask, e.bitCache) # Zero,
   eng |-> [e EXCEPT !.cacheMask = ShiftRight(e.cacheMask, 1)]]

\* RandBool(): [decision, eng]
RandBool(e) == Decide(Replenish(e))

\* a raw word drawn, with s0 read as state[p]
RawDraw(e, s0) == [e EXCEPT !.gen = AdvanceFrom(@, s0)]

\* the victim left with the sign it came with
ApplyRandomSignKept(e, negative) == [negative |-> negative, eng |-> RandBool(e).eng]

\* ApplyRandomSign(victim), the victim by its sign: [negative, eng]
ApplyRandomSign(e, negative) ==
  [negative |-> IF RandBool(e).decision THEN ~negative ELSE negative, eng |-> RandBool(e).eng]

\* ApplyRandomSign(victim) as the library defines it:
\* victim = copysign(victim, decision ? 1. : -1.)
ApplyRandomSign_copysign(e, negative) ==
  [negative |-> ~RandBool(e).decision, eng |-> RandBool(e).eng]

\* the two definitions of ApplyRandomSign: in the class, and in the library
SignVariants == {"class", "library"}

ApplyRandomSignOf(variant, e, negative) ==
  IF variant = "class" THEN ApplyRandomSign(e, negative)
  ELSE ApplyRandomSign_copysign(e, negative)

----------------------------------------------------------------------------
(* real_t = double: [m, e] is m * 2^e, with 2^52 <= m < 2^53 unless m = 0 *)

\* std::numeric_limits<double>::digits
numBitsMantissa == 53

numBitsPRNG == word_size

\* the highest bit set in byte a > 0, at or below bit k
RECURSIVE HighBitOfByte(_, _)
HighBitOfByte(a, k) == IF a \div Pow2(k) > 0 THEN k ELSE HighBitOfByte(a, k - 1)

\* the highest non-zero byte of x # 0, at or below byte j
RECURSIVE HighByte(_, _)
HighByte(x, j) == IF x[j] > 0 THEN j ELSE HighByte(x, j - 1)

\* the highest bit set in x # 0
HighBitIn(x, j) == 8 * (j - 1) + HighBitOfByte(x[j], 7)

HighBit(x) == HighBitIn(x, HighByte(x, 8))

\* carry out of bytes 1 .. j - 1 of x + 1
RECURSIVE CarryInc(_, _)
CarryInc(x, j) == IF j = 1 THEN 1 ELSE (x[j - 1] + CarryInc(x, j - 1)) \div 256

IncAt(x, j) == (x[j] + CarryInc(x, j)) % 256

\* x + 1
Inc(x) ==
  <<IncAt(x, 1), IncAt(x, 2), IncAt(x, 3), IncAt(x, 4),
    IncAt(x, 5), IncAt(x, 6), IncAt(x, 7), IncAt(x, 8)>>

\* 2^52, the least normalised mantissa
MinMantissa == ShiftLeft(WordOf(1), numBitsMantissa - 1)

\* q, a mantissa or 2^53, made a double with exponent e
Normalised(q, e) ==
  IF Bit(q, numBitsMantissa) = 1 THEN [m |-> ShiftRight(q, 1), e |-> e + 1]
  ELSE [m |-> q, e |-> e]

\* the lowest bits dropped, rounding toward zero
RoundedDown(q, rest) == q

\* Round to nearest, ties to even: q is x without its sh lowest bits, rest
\* holds those bits, moved to the top of a word
Rounded(q, rest) ==
  IF Less(TopBit, rest) \/ (rest = TopBit /\ Bit(q, 0) = 1) THEN Inc(q) ELSE q

\* real_t(x) for x with its highest bit b above the mantissa
RealOfWide(x, sh) ==
  Normalised(Rounded(ShiftRight(x, sh), ShiftLeft(x, word_size - sh)), sh)

\* real_t(x) for x with highest bit b
RealWithHighBit(x, b) ==
  IF b < numBitsMantissa THEN [m |-> ShiftLeft(x, numBitsMantissa - 1 - b), e |-> b + 1 - numBitsMantissa]
  ELSE RealOfWide(x, b + 1 - numBitsMantissa)

\* real_t(x): conversion of a uint64_t to double
RealOf(x) == IF x = Zero THEN [m |-> Zero, e |-> 0] ELSE RealWithHighBit(x, HighBit(x))

\* the exponent of the least positive double, 2^-1074
minExponent == -1074

\* m * 2^e is at most half the least positive double, and rounds to zero
Underflows(m, e) ==
  \/ e + numBitsMantissa - 1 < minExponent - 1
  \/ e + numBitsMantissa - 1 = minExponent - 1 /\ m = MinMantissa

\* q * 2^minExponent, a subnormal double or the least normal one
SubnormalOf(q) == IF q = Zero THEN [m |-> Zero, e |-> 0] ELSE [m |-> q, e |-> minExponent]

\* m * 2^(minExponent - d) for d > 0: below the normal doubles the mantissa
\* loses its d lowest bits, rounded to nearest, ties to even
Subnormal(m, d) ==
  IF d >= word_size THEN [m |-> Zero, e |-> 0]
  ELSE SubnormalOf(Rounded(ShiftRight(m, d), ShiftLeft(m, word_size - d)))

\* v * 2^k in double arithmetic: exact unless the product is subnormal,
\* zero once it underflows
TimesPow2(v, k) ==
  IF v.m = Zero \/ Underflows(v.m, v.e + k) THEN [m |-> Zero, e |-> 0]
  ELSE IF v.e + k >= minExponent THEN [v EXCEPT !.e = @ + k]
  ELSE Subnormal(v.m, minExponent - (v.e + k))

\* v > 0
Positive(v) == v.m # Zero

\* v = 1
IsOne(v) == v.m = MinMantissa /\ v.e = 1 - numBitsMantissa

\* v = 0.5
IsHalf(v) == v.m = MinMantissa /\ v.e = 0 - numBitsMantissa

\* v <= 1
AtMostOne(v) == v.m = Zero \/ v.e < 1 - numBitsMantissa \/ IsOne(v)

\* v is the largest double below 2^k: every mantissa bit set
IsJustBelowPow2(v, k) == Inc(v.m) = ShiftLeft(MinMantissa, 1) /\ v.e = k - numBitsMantissa

----------------------------------------------------------------------------
(* The uneven uniform draw.  A source of words is the generator itself,     *)
(* [kind |-> "gen", gen], or the words a generator is about to deliver,     *)
(* [kind |-> "words", words].                                               *)

numBitsOfEntropyRequired == numBitsMantissa + 1 + (IF badBits > 0 THEN badBits - 1 ELSE 1)

\* minEntropy one bit higher: 1 << numBitsOfEntropyRequired
minEntropyOneHigher == ShiftLeft(WordOf(1), numBitsOfEntropyRequired)

minEntropy == ShiftLeft(WordOf(1), numBitsOfEntropyRequired - 1)

\* a scale one binary place short: exp2(-(numBitsPRNG - 1))
scaleToU_unevenShort == 1 - numBitsPRNG

\* scaleToU_uneven = exp2(-numBitsPRNG), as its exponent
scaleToU_uneven == 0 - numBitsPRNG

\* randUint left as it is
NoStickyBit(randUint) == randUint

\* randUint bitor 1
StickyBit(randUint) == OR(randUint, WordOf(1))

\* the next word of the source: [word, src]
NextWord(src) ==
  IF src.kind = "words"
  THEN [word |-> Head(src.words), src |-> [src EXCEPT !.words = Tail(@)]]
  ELSE [word |-> Result(Advance(src.gen)), src |-> [src EXCEPT !.gen = Advance(@)]]

\* word >> k for 0 <= k <= 64.  A shift by the full width is undefined: the
\* build gives the word back (shift count taken modulo 64) or gives zero.
ShiftRightUpTo64(word, k, wraps) ==
  IF k < word_size THEN ShiftRight(word, k) ELSE IF wraps THEN word ELSE Zero

\* while(randUint < minEntropy) { randUint <<= 1; ++shiftLeft; }
RECURSIVE ShiftUp(_, _)
ShiftUp(randUint, shiftLeft) ==
  IF Less(randUint, minEntropy) THEN ShiftUp(ShiftLeft(randUint, 1), shiftLeft + 1)
  ELSE [randUint |-> randUint, shiftLeft |-> shiftLeft]

RECURSIVE ZeroRun(_, _)

\* while the word drawn is zero, after `zeros` downscales
ZeroRunNext(zeros, got) ==
  IF got.word = Zero THEN ZeroRun(zeros, got.src)
  ELSE [zeros |-> zeros, randUint |-> got.word, src |-> got.src]

\* the loop with downScale = scaleToU in place of downScale *= scaleToU
ZeroRunOnce(zeros, src) == ZeroRunNext(1, NextWord(src))

\* do downScale *= scaleToU; while(...): [zeros, randUint, src]
ZeroRun(zeros, src) == ZeroRunNext(zeros + 1, NextWord(src))

\* randUint or_eq (word >> (numBitsPRNG - shiftLeft))
TopUpFilled(up, got, wraps) ==
  OR(up.randUint, ShiftRightUpTo64(got.word, numBitsPRNG - up.shiftLeft, wraps))

\* what a top-up did: the zero words drawn, shiftLeft as the assertion finds
\* it, randUint after the shifts, the word drawn for the gap, the count it is
\* shifted right by, and randUint with the gap filled and the sticky bit set
TopUpDone(zeros, up, got, wraps) ==
  [zeros |-> zeros, shiftLeft |-> up.shiftLeft, placed |-> up.randUint, fresh |-> got.word,
   shiftRight |-> numBitsPRNG - up.shiftLeft,
   mantissa |-> StickyBit(TopUpFilled(up, got, wraps))]

\* randUint or_eq (word >> (numBitsPRNG - shiftLeft)); then the sticky bit
\* and downScale = scaleToU^zeros * exp2(-shiftLeft): [value, src, topUp]
TopUpInsert(zeros, up, got, wraps) ==
  [value |-> TimesPow2(RealOf(StickyBit(TopUpFilled(up, got, wraps))),
                       zeros * scaleToU_uneven - up.shiftLeft),
   src |-> got.src,
   topUp |-> <<TopUpDone(zeros, up, got, wraps)>>]

\* after the zero words: shiftLeft = 0, then shift up and insert
TopUpAfterZeros(run, wraps) ==
  TopUpInsert(run.zeros, ShiftUp(run.randUint, 0), NextWord(run.src), wraps)

\* The top-up of a first word below minEntropy: [value, src], the value
\* still to be scaled by scaleToU_uneven
TopUp(randUint, src, wraps) ==
  IF ShiftLeft(randUint, 1) = Zero THEN TopUpAfterZeros(ZeroRun(0, src), wraps)
  ELSE TopUpInsert(0, ShiftUp(ShiftLeft(randUint, 1), 1), NextWord(src), wraps)

\* U_uneven_TopUpEntropy(randUint)
U_uneven_TopUpEntropy(randUint, src, wraps) ==
  [TopUp(randUint, src, wraps) EXCEPT !.value = TimesPow2(@, scaleToU_uneven)]

\* U_uneven() once the first word has been drawn
U_unevenOf(got, wraps) ==
  IF Less(got.word, minEntropy) THEN U_uneven_TopUpEntropy(got.word, got.src, wraps)
  ELSE [value |-> TimesPow2(RealOf(StickyBit(got.word)), scaleToU_uneven), src |-> got.src,
        topUp |-> << >>]

\* U_uneven(): [value, src, topUp], topUp what the top-up did if there was one
U_uneven(src, wraps) == U_unevenOf(NextWord(src), wraps)

\* HalfU_uneven(): [value, src]
HalfU_uneven(src, wraps) == [U_uneven(src, wraps) EXCEPT !.value = TimesPow2(@, -1)]

\* a shift one bit short
bitShiftRight_evenShort == numBitsPRNG - numBitsMantissa - 1

bitShiftRight_even == numBitsPRNG - numBitsMantissa

\* scaleToU_even = exp2(-numBitsMantissa), as its exponent
scaleToU_even == 0 - numBitsMantissa

\* U_even() of the word drawn
U_even(word) == TimesPow2(RealOf(ShiftRight(word, bitShiftRight_even)), scaleToU_even)

----------------------------------------------------------------------------
(* The draws of an engine: [out, eng] *)

\* the engine as the source of the words of a draw
Source(e) == [kind |-> "gen", gen |-> e.gen]

\* a draw from Source(e), which left the source `drawn.src`
FromSource(e, drawn) == [out |-> drawn.value, eng |-> [e EXCEPT !.gen = drawn.src.gen]]

Draws == {"raw", "U_even", "U_uneven", "HalfU_uneven"}

\* e(), e.U_even(), e.U_uneven(), e.HalfU_uneven()
Draw(kind, e, wraps) ==
  CASE kind = "raw" -> [out |-> Result(Advance(e.gen)), eng |-> RawDraw(e, e.gen.state[e.gen.p + 1])]
    [] kind = "U_even" ->
         [out |-> U_even(Result(Advance(e.gen))), eng |-> RawDraw(e, e.gen.state[e.gen.p + 1])]
    [] kind = "U_uneven" -> FromSource(e, U_uneven(Source(e), wraps))
    [] kind = "HalfU_uneven" -> FromSource(e, HalfU_uneven(Source(e), wraps))

\* e.RandBool() and e.ApplyRandomSign(victim) alike
Flip(e, negative) ==
  [out |-> <<RandBool(e).decision, ApplyRandomSign(e, negative).negative>>,
   eng |-> RandBool(e).eng]

\* n calls of RandBool()
RECURSIVE FlipTimes(_, _)
FlipTimesFrom(done, n) == CASE done.gen.p \in Index -> FlipTimes(done, n - 1)

FlipTimes(e, n) == IF n = 0 THEN e ELSE FlipTimesFrom(RandBool(e).eng, n)

----------------------------------------------------------------------------
(* Bounds *)

\* calls of operator()() in one behaviour of the generator
MaxNext == 4

\* jumps (Jump() calls, and the argument of Jump(n)) in one behaviour
MaxJump == 2

\* the most state words a state string is made of
MaxWords == 19

\* seeding operations in one behaviour
MaxSeeds == 1

\* calls of RandBool(), ApplyRandomSign() included, in one behaviour of coin flips
MaxBool == 63

\* raw words drawn from an engine in one behaviour
MaxRaw == 1

\* operations on an engine in one behaviour, whatever their kind
MaxOps == 2

\* words counted from the largest word down
MaxScan == 3073

----------------------------------------------------------------------------
(* State *)

VARIABLES
  gen,      \* the generator under test: [state, p]
  jumped,   \* jumped[n + 1]: the initial generator after n calls of Jump()
  nNext,    \* calls of operator()() made so far
  nJump,    \* jumps made so far, Jump(n) counting n
  call,     \* the last call made: <<name, argument>>
  eng,      \* the engine under test: [gen, bitCache, cacheMask]
  text,     \* the state string at hand: [words, declared, tail, tokens]
  last,     \* the last engine operation: [op, error, before, out]
  count,    \* engine operations so far: [seed, raw, bool, fresh, jump,
            \* foreign], fresh the words RandBool drew, foreign whether the bit
            \* cache was last seeded from fields a user wrote
  copy,     \* the engine seeded from the state eng wrote: [made, eng, out],
            \* out the last outputs of eng and of the copy; for a sampler
            \* called with two engines, the second engine
  draw,     \* uneven draws from given words: [words, wraps, kind, value, used,
            \* word, topUp], word the first word of the last draw, topUp what
            \* its top-up did
  scan,     \* the count of the words drawn as 1, 0.5 and their neighbours below:
            \* [active, done, passed, ones, below, halves, belowHalf]; for a
            \* loop run step by step, the steps done and what they left
  dist,     \* the distribution object at hand: its kind, its members and
            \* what its constructor raised
  sample    \* the last call of the distribution's sampler: what it drew from
            \* the engine, in order, and what it returned

genVars == <<gen, jumped, nNext, nJump, call>>

engVars == <<eng, copy, text, last, count>>

unevenVars == <<draw, scan>>

distVars == <<dist, sample>>

vars == <<genVars, engVars, unevenVars, distVars>>

\* the values of the variables a specification does not use
GenIdle ==
  /\ gen = [state |-> ZeroState, p |-> 0]
  /\ jumped = << >>
  /\ nNext = 0
  /\ nJump = 0
  /\ call = <<"none", 0>>

NoCount == [seed |-> 0, raw |-> 0, bool |-> 0, fresh |-> 0, jump |-> 0, foreign |-> 0]

NoText == [words |-> 0, declared |-> "none", tail |-> << >>, tokens |-> << >>]

NoEngine == [gen |-> [state |-> ZeroState, p |-> 0], bitCache |-> Zero, cacheMask |-> Zero]

NoCopy == [made |-> FALSE, eng |-> NoEngine, out |-> << >>]

NoDraw == [words |-> << >>, wraps |-> FALSE, kind |-> "none", value |-> [m |-> Zero, e |-> 0],
           used |-> 0, word |-> Zero, topUp |-> << >>]

NoScan == [active |-> FALSE, done |-> 0, passed |-> FALSE,
           ones |-> 0, below |-> 0, halves |-> 0, belowHalf |-> 0]

UnevenIdle == draw = NoDraw /\ scan = NoScan

DistIdle == dist = [kind |-> "none"] /\ sample = [op |-> "none"]

EngIdle ==
  /\ eng = NoEngine
  /\ copy = NoCopy
  /\ text = NoText
  /\ last = [op |-> "none", error |-> NoError, before |-> << >>, out |-> << >>]
  /\ count = NoCount

----------------------------------------------------------------------------
(* Generator states the behaviours start from *)

TestWord(s, i) ==
  <<(s * 37 + i * 11) % 256, (s * 5 + i * 3 + 1) % 256, (s + i * 7) % 256, (i * 29 + 2) % 256,
    (s * 3 + i * 13) % 256, (s * 91 + i) % 256, (i * i + s) % 256, (s * 17 + i * 5 + 128) % 256>>

TestState(s) ==
  <<TestWord(s, 0), TestWord(s, 1), TestWord(s, 2), TestWord(s, 3),
    TestWord(s, 4), TestWord(s, 5), TestWord(s, 6), TestWord(s, 7),
    TestWord(s, 8), TestWord(s, 9), TestWord(s, 10), TestWord(s, 11),
    TestWord(s, 12), TestWord(s, 13), TestWord(s, 14), TestWord(s, 15)>>

\* rotation indices the generator starts at; operator()() walks on from each
StartIndex == {0, 5, 10, 15}

\* <<g, Jump(g), Jump(Jump(g)), ...>>, k jumps deep
RECURSIVE JumpChain(_, _)
JumpChain(g, k) ==
  IF k = 0 THEN <<g>> ELSE <<g>> \o JumpChain(Jump(g), k - 1)

----------------------------------------------------------------------------
(* The generator alone: operator()(), Jump() and Jump(n) in any order *)

GenInit ==
  /\ \E p0 \in StartIndex :
       /\ gen = [state |-> TestState(p0 + 1), p |-> p0]
       /\ jumped = JumpChain(gen, MaxJump)
       /\ nNext = 0
       /\ nJump = 0
       /\ call = <<"none", 0>>
  /\ EngIdle
  /\ UnevenIdle
  /\ DistIdle

\* gen()
DoNext ==
  /\ nNext < MaxNext
  /\ gen' = Advance(gen)
  /\ nNext' = nNext + 1
  /\ call' = <<"next", 0>>
  /\ UNCHANGED <<jumped, nJump, engVars, unevenVars, distVars>>

\* gen.Jump()
DoJump ==
  /\ nJump < MaxJump
  /\ gen' = Jump(gen)
  /\ nJump' = nJump + 1
  /\ call' = <<"Jump", 0>>
  /\ UNCHANGED <<jumped, nNext, engVars, unevenVars, distVars>>

\* gen.Jump(nTimes)
DoJumpTimes ==
  \E nTimes \in 0..(MaxJump - nJump) :
    /\ gen' = JumpTimes(gen, nTimes)
    /\ nJump' = nJump + nTimes
    /\ call' = <<"JumpTimes", nTimes>>
    /\ UNCHANGED <<jumped, nNext, engVars, unevenVars, distVars>>

GenNext == DoNext \/ DoJump \/ DoJumpTimes

SpecGen == GenInit /\ [][GenNext]_vars

\* The state every order of nNext calls and nJump jumps must end in:
\* all the jumps first, then all the calls
JumpsThenCalls == AdvanceTimes(jumped[nJump + 1], nNext)

\* C1: however nNext calls of operator()() and nJump calls of Jump() were
\* interleaved, the generator holds the same 16 words at the same indices and
\* the same p as after all the jumps followed by all the calls.
C1_InterleavingsAgree == gen = JumpsThenCalls

\* a call made after a jump, from a start where that order and the opposite
\* one both occur
C1_Witness == call[1] = "next" /\ nJump = 2 /\ nNext = 2

\* C2: Jump(n) leaves the generator where n calls of Jump() leave it, and
\* Jump(0) changes nothing.
C2_JumpTimesIsRepeatedJump ==
  [][/\ call'[1] = "JumpTimes" =>
          gen' = AdvanceTimes(jumped[nJump + call'[2] + 1], nNext)
     /\ call' = <<"JumpTimes", 0>> => gen' = gen]_vars

C2_Witness == call = <<"JumpTimes", 2>> /\ nNext = 1

----------------------------------------------------------------------------
(* Engines and state strings the seeding behaviours start from *)

\* Seed(): the minimal state string made of sixteen words of entropy
MinimalString(entropy) ==
  <<FormatWord(entropy[1]), FormatWord(entropy[2]), FormatWord(entropy[3]),
    FormatWord(entropy[4]), FormatWord(entropy[5]), FormatWord(entropy[6]),
    FormatWord(entropy[7]), FormatWord(entropy[8]), FormatWord(entropy[9]),
    FormatWord(entropy[10]), FormatWord(entropy[11]), FormatWord(entropy[12]),
    FormatWord(entropy[13]), FormatWord(entropy[14]), FormatWord(entropy[15]),
    FormatWord(entropy[16]), FormatWord(WordOf(state_size))>>

\* Seed() of an engine: Seed_FromStream on the minimal state string
Seed(e, entropy) == Seed_FromStream(e, OpenStream(MinimalString(entropy))).eng

\* engine(autoSeed = true): the base class seeds the generator from the
\* minimal state string, the engine defers its bit cache; bitCache is whatever
\* the memory held
Construct(entropy, junk) ==
  DefaultInitializeBitCache(
    [gen |-> Extract(OpenStream(MinimalString(entropy)), [state |-> ZeroState, p |-> 0]).gen,
     bitCache |-> junk, cacheMask |-> junk])

\* values an uninitialised bitCache is found with
IndeterminateWords == {Zero, TestWord(3, 3)}

\* the decimal numeral of a small number
Numeral(n) == FormatWord(WordOf(n))

\* 2^64, a numeral too long for a word
TooLong == <<1, 8, 4, 4, 6, 7, 4, 4, 0, 7, 3, 7, 0, 9, 5, 5, 1, 6, 1, 6>>

\* how the state words of a string are chosen
Styles == {"random", "sixteen"}

\* what follows the state words: their number, that number plus one, nothing
Declared == {"own", "next", "none"}

\* the i-th state word of a string
StateWordToken(style, i) ==
  IF style = "random" THEN FormatWord(TestWord(9, i)) ELSE Numeral(state_size)

StateWords(n, style) == SubSeq([i \in 1..n |-> StateWordToken(style, i)], 1, n)

CountToken(n, declared) ==
  IF declared = "own" THEN <<Numeral(n)>>
  ELSE IF declared = "next" THEN <<Numeral(n + 1)>> ELSE << >>

\* what follows the count: nothing, p, p and the bit cache
Tails ==
  {<< >>, <<Numeral(15)>>, <<Numeral(16)>>, <<Numeral(17)>>, <<TooLong>>,
   <<<<NotADigit>>>>, <<Numeral(3), Numeral(9)>>, <<Numeral(3), Numeral(9), Numeral(8)>>}

\* a state string as a user writes it
UserText(n, style, declared, tail) ==
  [words |-> n, declared |-> declared, tail |-> tail,
   tokens |-> StateWords(n, style) \o CountToken(n, declared) \o tail]

\* state[p] read with p = state_size lies past the array: the word found
\* there is p itself, which the class lays out next, or anything else
OutOfBoundsReads(g) == {WordOf(g.p), Zero, TestWord(5, 5)}

\* the values operator()() may read as state[p]
StateReads(g) == IF g.p < state_size THEN {g.state[g.p + 1]} ELSE OutOfBoundsReads(g)

----------------------------------------------------------------------------
(* Seeding an engine from state strings a user supplies *)

SeedInit ==
  /\ \E junk \in IndeterminateWords : eng = Construct(TestState(1), junk)
  /\ \E n \in 0..MaxWords, style \in Styles, declared \in Declared, tail \in Tails :
       text = UserText(n, style, declared, tail)
  /\ last = [op |-> "none", error |-> NoError, before |-> << >>, out |-> << >>]
  /\ count = NoCount
  /\ copy = NoCopy
  /\ GenIdle
  /\ UnevenIdle
  /\ DistIdle

\* the engine and the record of a seeding with the result `seeded`
Seeded(seeded) ==
  /\ eng' = seeded.eng
  /\ last' = [op |-> "seed", error |-> seeded.error, before |-> <<eng>>, out |-> << >>]

\* eng.Seed_FromString(text), the exception caught by the caller
SeedText ==
  /\ count.seed < MaxSeeds
  /\ Seeded(Seed_FromString(eng, text.tokens))
  /\ count' = [count EXCEPT !.seed = @ + 1]
  /\ UNCHANGED <<copy, text, genVars, unevenVars, distVars>>

\* eng(), a raw word drawn
SeedDraw ==
  /\ count.raw < MaxRaw
  /\ \E s0 \in StateReads(eng.gen) : eng' = RawDraw(eng, s0)
  /\ last' = [op |-> "raw", error |-> NoError, before |-> <<eng>>, out |-> << >>]
  /\ count' = [count EXCEPT !.raw = @ + 1]
  /\ UNCHANGED <<copy, text, genVars, unevenVars, distVars>>

SeedNext == SeedText \/ SeedDraw

SpecSeed == SeedInit /\ [][SeedNext]_vars

\* a seeding was the last operation, and it threw
SeedRejected == last.op = "seed" /\ last.error # NoError

\* the token spells the number n and nothing else
Spells(token, n) ==
  ParseToken(token) = [ok |-> TRUE, value |-> WordOf(n), used |-> Len(token)]

\* the token is a numeral of state_size or more, too long ones included
SpellsIndexOutOfRange(token) ==
  /\ \A k \in 1..Len(token) : token[k] # NotADigit
  /\ ParseToken(token).ok => ~Less(ParseToken(token).value, WordOf(state_size))

\* the index of the first token that is not a number a word holds, or one
\* past the last token
RECURSIVE FirstBad(_, _)
FirstBad(tokens, k) ==
  IF k > Len(tokens) \/ ~ParseToken(tokens[k]).ok THEN k ELSE FirstBad(tokens, k + 1)

\* C4: a state string of sixteen words and the count 16 whose p token is a
\* numeral of 16 or more is rejected with a format error.
C4_IndexOutOfRangeRejected ==
  (/\ last.op = "seed"
   /\ text.words = state_size /\ text.declared = "own"
   /\ text.tail # << >> /\ SpellsIndexOutOfRange(text.tail[1]))
  => last.error # NoError

C6_FailedSeedChangesNothing == SeedRejected => eng = last.before[1]

\* the fields a seeding that threw for `error` leaves, the first bad token
\* being the k-th
FailedSeedLeaves(b, tokens, k, error) ==
  /\ \A i \in 1..state_size :
       eng.gen.state[i] = IF i < k THEN ParseToken(tokens[i]).value ELSE b.gen.state[i]
  /\ eng.gen.p = IF error = NoCacheMask THEN ParseToken(tokens[state_size + 2]).value[1]
                 ELSE b.gen.p
  /\ eng.bitCache = IF error = NoCacheMask THEN ParseToken(tokens[state_size + 3]).value
                    ELSE b.bitCache
  /\ eng.cacheMask = b.cacheMask

\* C6: a seeding that throws leaves every state word read before the failing
\* token at its newly parsed value and the other state words as they were;
\* p and bitCache are as they were unless the cacheMask was missing, and then
\* they are the parsed ones; cacheMask is as it was.
C6_FailedSeedKeepsWhatWasRead ==
  SeedRejected =>
    FailedSeedLeaves(last.before[1], text.tokens, FirstBad(text.tokens, 1), last.error)

\* a string rejected for its p, the engine left with the new words and the
\* p it had after one draw
C6_Witness ==
  /\ SeedRejected /\ last.error = PTooLarge
  /\ eng.gen.p = 1 /\ eng.gen.state # last.before[1].gen.state

----------------------------------------------------------------------------
(* Coin flips: RandBool() and ApplyRandomSign() on a new engine, a raw draw  *)
(* between them                                                              *)

BoolInit ==
  /\ \E s \in {1, 2}, junk \in IndeterminateWords : eng = Construct(TestState(s), junk)
  /\ text = NoText
  /\ last = [op |-> "none", error |-> NoError, before |-> << >>, out |-> << >>]
  /\ count = NoCount
  /\ copy = NoCopy
  /\ GenIdle
  /\ UnevenIdle
  /\ DistIdle

\* the engine and the counts after a coin flip left the engine `flipped`
Flipped(op, flipped, out) ==
  /\ eng' = flipped
  /\ last' = [op |-> op, error |-> NoError, before |-> <<eng>>, out |-> out]
  /\ count' = [count EXCEPT !.bool = @ + 1,
                            !.fresh = IF flipped.gen # eng.gen THEN @ + 1 ELSE @]

\* eng.RandBool()
BoolFlip ==
  /\ count.bool < MaxBool
  /\ Flipped("RandBool", RandBool(eng).eng, <<RandBool(eng).decision>>)
  /\ UNCHANGED <<copy, text, genVars, unevenVars, distVars>>

\* eng.ApplyRandomSign(victim)
BoolSign ==
  /\ count.bool < MaxBool
  /\ \E variant \in SignVariants, negative \in BOOLEAN :
       Flipped("ApplyRandomSign", ApplyRandomSignOf(variant, eng, negative).eng,
               <<variant, negative, ApplyRandomSignOf(variant, eng, negative).negative>>)
  /\ UNCHANGED <<copy, text, genVars, unevenVars, distVars>>

\* eng()
BoolRaw ==
  /\ count.raw < MaxRaw
  /\ \E s0 \in StateReads(eng.gen) : eng' = RawDraw(eng, s0)
  /\ last' = [op |-> "raw", error |-> NoError, before |-> <<eng>>, out |-> << >>]
  /\ count' = [count EXCEPT !.raw = @ + 1]
  /\ UNCHANGED <<copy, text, genVars, unevenVars, distVars>>

BoolNext == BoolFlip \/ BoolSign \/ BoolRaw

SpecBool == BoolInit /\ [][BoolNext]_vars

\* usable bits of a word: numBitsPRNG - badBits
BitsPerWord == word_size - badBits

\* C7 as stated: of the coin flips of a new engine, the 1st, the 54th, and
\* every 53rd after draw a word from the generator, and no other does.
C7_WordPerMantissaWidth ==
  count.fresh = (count.bool + numBitsMantissa - 1) \div numBitsMantissa

\* C7: of the coin flips of a new engine, the 1st, the 63rd and every 62nd
\* after draw a word from the generator, and no other does: a word serves
\* numBitsPRNG - badBits = 62 flips.
C7_WordPerUsableBits ==
  count.fresh = (count.bool + BitsPerWord - 1) \div BitsPerWord

\* the 63rd flip, which drew the second word
C7_Witness ==
  /\ last.op = "RandBool" /\ count.bool = BitsPerWord + 1 /\ count.fresh = 2
  /\ last.before[1].gen # eng.gen

----------------------------------------------------------------------------
(* Uneven draws from words as the generator delivers them, and the count of *)
(* the words drawn as 1 and as its neighbour below                          *)

\* 2^64 - 1
MaxWord == <<255, 255, 255, 255, 255, 255, 255, 255>>

\* x - 1 for x > 0
Dec(x) == XOR(MaxWord, Inc(XOR(MaxWord, x)))

\* The generator never delivers state_size zero words in a row: they would
\* be its whole state, which is not all zero
ZeroRuns == 0..(state_size - 1)

\* the word that ends a run of zeros, or is drawn first
DrawnWords ==
  {WordOf(1), WordOf(255), Dec(minEntropy), minEntropy, TopBit, Dec(TopBit),
   TestWord(6, 2), MaxWord}

\* the word whose bits fill the gap of the shift
FillerWords == {Zero, TestWord(2, 6), MaxWord}

Zeros(n) == SubSeq([i \in 1..n |-> Zero], 1, n)

\* the draw finds its words among those left: a word that is not zero, and
\* one after it unless it is the first and has entropy enough
Delivered(words) ==
  \E k \in 1..Len(words) :
    /\ words[k] # Zero
    /\ \A j \in 1..(k - 1) : words[j] = Zero
    /\ (k = 1 /\ ~Less(words[1], minEntropy)) \/ k < Len(words)

DrawInit ==
  /\ \E zeros \in ZeroRuns, word \in DrawnWords, filler \in FillerWords, wraps \in BOOLEAN :
       draw = [NoDraw EXCEPT !.words = Zeros(zeros) \o <<word, filler>>, !.wraps = wraps]
  /\ scan = NoScan

ScanInit ==
  /\ draw = NoDraw
  /\ scan = [NoScan EXCEPT !.active = TRUE]

UnevenInit ==
  /\ DrawInit \/ ScanInit
  /\ GenIdle
  /\ EngIdle
  /\ DistIdle

\* the record of a draw with the result `drawn`
Drawn(kind, drawn) ==
  draw' = [draw EXCEPT !.words = drawn.src.words, !.kind = kind, !.value = drawn.value,
                       !.word = Head(draw.words), !.topUp = drawn.topUp,
                       !.used = Len(draw.words) - Len(drawn.src.words)]

\* U_uneven()
UnevenDraw ==
  /\ Delivered(draw.words)
  /\ Drawn("U_uneven", U_uneven([kind |-> "words", words |-> draw.words], draw.wraps))
  /\ UNCHANGED <<scan, genVars, engVars, distVars>>

\* HalfU_uneven()
UnevenHalf ==
  /\ Delivered(draw.words)
  /\ Drawn("HalfU_uneven", HalfU_uneven([kind |-> "words", words |-> draw.words], draw.wraps))
  /\ UNCHANGED <<scan, genVars, engVars, distVars>>

\* the word `done` below the largest
ScanWord(done) == XOR(MaxWord, WordOf(done))

Count(n, counted) == IF counted THEN n + 1 ELSE n

\* the counts with the draws of one more word: u = U_uneven(), h = HalfU_uneven()
Scanned(u, h) ==
  [active |-> TRUE, done |-> scan.done + 1,
   passed |-> ~IsOne(u) /\ ~IsJustBelowPow2(u, 0) /\ ~IsHalf(h) /\ ~IsJustBelowPow2(h, -1),
   ones |-> Count(scan.ones, IsOne(u)), below |-> Count(scan.below, IsJustBelowPow2(u, 0)),
   halves |-> Count(scan.halves, IsHalf(h)),
   belowHalf |-> Count(scan.belowHalf, IsJustBelowPow2(h, -1))]

\* both draws of the next word down
UnevenScan ==
  /\ scan.active /\ scan.done < MaxScan
  /\ scan' = Scanned(U_uneven([kind |-> "words", words |-> <<ScanWord(scan.done)>>], FALSE).value,
                     HalfU_uneven([kind |-> "words", words |-> <<ScanWord(scan.done)>>], FALSE).value)
  /\ UNCHANGED <<draw, genVars, engVars, distVars>>

\* U_even(): one word, whatever it is
EvenDraw ==
  /\ draw.words # << >>
  /\ draw' = [draw EXCEPT !.words = Tail(@), !.kind = "U_even",
                          !.value = U_even(Head(draw.words)), !.used = 1,
                          !.word = Head(draw.words), !.topUp = << >>]
  /\ UNCHANGED <<scan, genVars, engVars, distVars>>

UnevenNext == UnevenDraw \/ UnevenHalf \/ UnevenScan \/ EvenDraw

SpecUneven == UnevenInit /\ [][UnevenNext]_vars

\* C9: an uneven draw returns a value above 0 and at most 1, from whatever
\* words the generator can deliver, runs of up to fifteen zeros included.
C9_UnevenInRange ==
  draw.kind = "U_uneven" => Positive(draw.value) /\ AtMostOne(draw.value)

\* a draw that went through fifteen zero words and is still above zero
C9_Witness ==
  /\ draw.kind = "U_uneven" /\ draw.used = state_size + 1
  /\ Positive(draw.value) /\ draw.value.e < -1000

\* C10: once the words are counted from the largest down to the first drawn
\* below the neighbour of 1, the words drawn as 1 are half as many as those
\* drawn as the largest value below 1; so for 0.5 and the half variant.
C10_OneHalfAsLikely ==
  (scan.active /\ scan.passed) =>
    /\ scan.ones > 0 /\ 2 * scan.ones = scan.below
    /\ scan.halves > 0 /\ 2 * scan.halves = scan.belowHalf

\* the count complete: 2^10 words drawn as 1, 2^11 as its neighbour
C10_Witness ==
  /\ scan.active /\ scan.passed
  /\ scan.ones = 1024 /\ scan.below = 2048 /\ scan.halves = 1024

----------------------------------------------------------------------------
(* An engine through seeding of every kind, draws, coin flips and jumps *)

\* usable bits of the bit cache already used when a behaviour starts
CachePositions == {0, BitsPerWord - 1}

\* state strings a user seeds with: the minimal string with p; one with the
\* bit cache and a cacheMask of two bits; one with the bit cache but no
\* cacheMask
EngineTexts ==
  {MinimalString(TestState(4)) \o <<Numeral(7)>>,
   MinimalString(TestState(4)) \o <<Numeral(7), Numeral(9), Numeral(12)>>,
   MinimalString(TestState(4)) \o <<Numeral(7), Numeral(9)>>}

EngineInit ==
  /\ \E junk \in IndeterminateWords, used \in CachePositions :
       eng = FlipTimes(Construct(TestState(1), junk), used)
  /\ copy = NoCopy
  /\ text = NoText
  /\ last = [op |-> "none", error |-> NoError, before |-> << >>, out |-> << >>]
  /\ count = NoCount
  /\ GenIdle
  /\ UnevenIdle
  /\ DistIdle

\* operations so far
Ops == count.seed + count.raw + count.bool + count.jump

\* an operation that cannot fail, by its kind
Did(op) == last' = [op |-> op, error |-> NoError, before |-> << >>, out |-> << >>]

\* eng(), eng.U_even(), eng.U_uneven(), eng.HalfU_uneven()
EngineDraw ==
  /\ Ops < MaxOps
  /\ \E kind \in Draws, wraps \in BOOLEAN : eng' = Draw(kind, eng, wraps).eng
  /\ Did("draw")
  /\ count' = [count EXCEPT !.raw = @ + 1]
  /\ UNCHANGED <<copy, text, genVars, unevenVars, distVars>>

\* eng.RandBool(), eng.ApplyRandomSign(victim)
EngineFlip ==
  /\ Ops < MaxOps
  /\ \E negative \in BOOLEAN : eng' = Flip(eng, negative).eng
  /\ Did("flip")
  /\ count' = [count EXCEPT !.bool = @ + 1]
  /\ UNCHANGED <<copy, text, genVars, unevenVars, distVars>>

\* eng.Jump()
EngineJump ==
  /\ Ops < MaxOps
  /\ eng' = [eng EXCEPT !.gen = Jump(@)]
  /\ Did("jump")
  /\ count' = [count EXCEPT !.jump = @ + 1]
  /\ UNCHANGED <<copy, text, genVars, unevenVars, distVars>>

\* eng.Seed()
EngineSeed ==
  /\ Ops < MaxOps
  /\ eng' = Seed(eng, TestState(2))
  /\ Did("seed")
  /\ count' = [count EXCEPT !.seed = @ + 1, !.foreign = 0]
  /\ UNCHANGED <<copy, text, genVars, unevenVars, distVars>>

\* the engine seeded from tokens; foreign tells whether they bear bit cache
\* fields a user wrote
SeededFrom(tokens, seeded, foreign) ==
  /\ eng' = seeded.eng
  /\ text' = [NoText EXCEPT !.tokens = tokens]
  /\ last' = [op |-> "seed", error |-> seeded.error, before |-> << >>, out |-> << >>]
  /\ count' = [count EXCEPT !.seed = @ + 1,
                            !.foreign = IF seeded.error = NoError THEN foreign ELSE @]

\* eng.Seed_FromString(text) with a string a user wrote
EngineSeedText ==
  /\ Ops < MaxOps
  /\ \E tokens \in EngineTexts :
       SeededFrom(tokens, Seed_FromString(eng, tokens),
                  IF Len(tokens) > state_size + 2 THEN 1 ELSE 0)
  /\ UNCHANGED <<copy, genVars, unevenVars, distVars>>

\* eng.Seed_FromString(eng.GetState()): its own state written and read back
EngineSeedWritten ==
  /\ Ops < MaxOps
  /\ SeededFrom(WriteState_ToStream(eng), Seed_FromString(eng, WriteState_ToStream(eng)),
                count.foreign)
  /\ UNCHANGED <<copy, genVars, unevenVars, distVars>>

EngineNext ==
  \/ EngineDraw \/ EngineFlip \/ EngineJump
  \/ EngineSeed \/ EngineSeedText \/ EngineSeedWritten

SpecEngine == EngineInit /\ [][EngineNext]_vars

\* replenishBitCache, or one bit at a position above it
Usable(cacheMask) ==
  \/ cacheMask = replenishBitCache
  \/ \E k \in badBits..(word_size - 1) : cacheMask = ShiftLeft(WordOf(1), k)

\* C8 as stated: after construction, any seeding the parser accepts, draws,
\* coin flips and jumps, cacheMask is the sentinel or a single bit above it.
C8_CacheMaskUsable == Usable(eng.cacheMask)

\* C8: cacheMask is the sentinel or a single bit above it after construction,
\* draws, coin flips, jumps, a seeding that failed, and a seeding from
\* entropy, from a string without bit cache fields, or from the state an
\* engine wrote; a string whose bit cache fields a user wrote leaves
\* whatever cacheMask it spells.
C8_CacheMaskUsableUnlessForeign == count.foreign = 0 => Usable(eng.cacheMask)

\* an engine part way through its bit cache, seeded from the state it wrote
C8_Witness ==
  /\ last.op = "seed" /\ last.error = NoError /\ count.foreign = 0
  /\ Len(text.tokens) = state_size + 4
  /\ eng.cacheMask \notin {replenishBitCache, TopBit}

----------------------------------------------------------------------------
(* The state of an engine written, a new engine seeded from it, and the two *)
(* drawn from side by side                                                   *)

\* rotation indices and bit cache positions the engine is found at
CloneIndices == {0, state_size - 1}

ClonePositions == {0, 1, BitsPerWord - 1, BitsPerWord}

\* an engine seeded with the rotation index p0, after `used` coin flips
EngineAt(junk, p0, used) ==
  FlipTimes(Seed_FromString(Construct(TestState(1), junk),
                            MinimalString(TestState(1)) \o <<Numeral(p0)>>).eng,
            used)

CloneInit ==
  /\ \E junk \in IndeterminateWords, p0 \in CloneIndices, used \in ClonePositions :
       eng = EngineAt(junk, p0, used)
  /\ copy = NoCopy
  /\ text = NoText
  /\ last = [op |-> "none", error |-> NoError, before |-> << >>, out |-> << >>]
  /\ count = NoCount
  /\ GenIdle
  /\ UnevenIdle
  /\ DistIdle

\* the copy seeded from `written`, the state of eng
Cloned(written, seeded) ==
  /\ copy' = [made |-> TRUE, eng |-> seeded.eng, out |-> << >>]
  /\ text' = [NoText EXCEPT !.tokens = written]
  /\ last' = [op |-> "clone", error |-> seeded.error, before |-> << >>, out |-> << >>]

\* engine other; other.Seed_FromString(eng.GetState())
CloneWrite ==
  /\ ~copy.made
  /\ Cloned(WriteState_ToStream(eng),
            Seed_FromString(Construct(TestState(3), Zero), WriteState_ToStream(eng)))
  /\ UNCHANGED <<eng, count, genVars, unevenVars, distVars>>

\* the same operation on eng and, once it is made, on the copy: mine and
\* theirs are its results
SideBySide(mine, theirs) ==
  /\ eng' = mine.eng
  /\ copy' = IF copy.made THEN [copy EXCEPT !.eng = theirs.eng, !.out = <<mine.out, theirs.out>>]
             ELSE copy

\* a draw of one kind from both
CloneDraw ==
  /\ Ops < MaxOps
  /\ \E kind \in Draws, wraps \in BOOLEAN :
       SideBySide(Draw(kind, eng, wraps), Draw(kind, copy.eng, wraps))
  /\ Did("draw")
  /\ count' = [count EXCEPT !.raw = @ + 1]
  /\ UNCHANGED <<text, genVars, unevenVars, distVars>>

\* RandBool() or ApplyRandomSign(victim) on both
CloneFlip ==
  /\ Ops < MaxOps
  /\ \E negative \in BOOLEAN : SideBySide(Flip(eng, negative), Flip(copy.eng, negative))
  /\ Did("flip")
  /\ count' = [count EXCEPT !.bool = @ + 1]
  /\ UNCHANGED <<text, genVars, unevenVars, distVars>>

CloneNext == CloneWrite \/ CloneDraw \/ CloneFlip

SpecClone == CloneInit /\ [][CloneNext]_vars

\* C3: an engine seeded from the state string another wrote, whatever its p
\* and its place in the bit cache, is in the same state as the writer, and
\* stays so: every word, variate and coin flip drawn from the two after that
\* is the same.
C3_WrittenStateRoundTrips ==
  copy.made =>
    /\ last.error = NoError
    /\ copy.eng = eng
    /\ copy.out # << >> => copy.out[1] = copy.out[2]

\* the state written with p = 15 and the bit cache used up; the flip after
\* it drew the next word in both engines
C3_Witness ==
  /\ copy.made /\ last.op = "flip" /\ copy.out # << >>
  /\ eng.gen.p = 0 /\ eng.cacheMask = ShiftRight(TopBit, 1)

\* v < 1
BelowOne(v) == v.m = Zero \/ v.e < 1 - numBitsMantissa

\* the word without its wordWidth - mantissaWidth = 11 lowest bits
HighBitsOf(word) == AND(word, XOR(MaxWord, WordOf(Pow2(word_size - numBitsMantissa) - 1)))

\* v = q * 2^-mantissaWidth for the q whose bits are the high bits of the word
IsHighBitsScaled(v, word) ==
  IF v.m = Zero THEN HighBitsOf(word) = Zero
  ELSE /\ v.e + numBitsMantissa <= 0
       /\ ShiftLeft(ShiftRight(v.m, 0 - (v.e + numBitsMantissa)), 0 - (v.e + numBitsMantissa)) = v.m
       /\ ShiftLeft(ShiftRight(v.m, 0 - (v.e + numBitsMantissa)), word_size - numBitsMantissa)
            = HighBitsOf(word)

\* C11: the even draw uses one word w and returns
\* floor(w / 2^(wordWidth - mantissaWidth)) * 2^-mantissaWidth, which is below
\* 1, and 0 for every w < 2^(wordWidth - mantissaWidth).
C11_EvenIsScaledHighBits ==
  draw.kind = "U_even" =>
    /\ draw.used = 1
    /\ BelowOne(draw.value)
    /\ IsHighBitsScaled(draw.value, draw.word)
    /\ Less(draw.word, WordOf(Pow2(word_size - numBitsMantissa))) => draw.value.m = Zero

\* the largest word, drawn as the largest value below 1
C11_Witness ==
  /\ draw.kind = "U_even" /\ draw.word = MaxWord /\ IsJustBelowPow2(draw.value, 0)

\* the bool the bit cache of engine b gives next, refilled first if used up
NextDecision(b, after) ==
  IF b.cacheMask = replenishBitCache THEN AND(TopBit, after.bitCache) # Zero
  ELSE AND(b.cacheMask, b.bitCache) # Zero

\* one RandBool() call, and nothing else, took engine b to engine `after`
OneRandBool(b, after) ==
  IF b.cacheMask = replenishBitCache
  THEN /\ after.gen = Advance(b.gen)
       /\ after.bitCache = Result(after.gen)
       /\ after.cacheMask = ShiftRight(TopBit, 1)
  ELSE /\ after.gen = b.gen
       /\ after.bitCache = b.bitCache
       /\ after.cacheMask = ShiftRight(b.cacheMask, 1)

\* C12 as stated: ApplyRandomSign makes one RandBool call and returns the
\* victim negated when the bool is true, unchanged when it is false,
\* whatever the victim's sign.
C12_NegatedWhenTrue ==
  last.op = "ApplyRandomSign" =>
    /\ OneRandBool(last.before[1], eng)
    /\ last.out[3] = IF NextDecision(last.before[1], eng) THEN ~last.out[2] ELSE last.out[2]

\* C12: ApplyRandomSign makes one RandBool call, which moves cacheMask and,
\* when the bit cache is used up, draws a word from the generator.  As the
\* class defines it, the victim is negated when the bool is true and
\* unchanged when it is false; as the library defines it (copysign), the
\* victim is made positive when the bool is true and negative when it is
\* false, whatever sign it came with.
C12_SignPerDefinition ==
  last.op = "ApplyRandomSign" =>
    /\ OneRandBool(last.before[1], eng)
    /\ last.out[1] = "class" =>
         last.out[3] = IF NextDecision(last.before[1], eng) THEN ~last.out[2] ELSE last.out[2]
    /\ last.out[1] = "library" => last.out[3] = ~NextDecision(last.before[1], eng)

\* a positive victim and a true bool from a refilled bit cache: left
\* positive by the library's definition
C12_Witness ==
  /\ last.op = "ApplyRandomSign" /\ last.out = <<"library", FALSE, FALSE>>
  /\ last.before[1].cacheMask = replenishBitCache
  /\ NextDecision(last.before[1], eng)


----------------------------------------------------------------------------
(* Distribution parameters: real_t values by sign and class *)

\* the largest exponent of a finite real_t
maxExponent == 1023

\* a real_t parameter: a NaN, or a sign with a zero, an infinity or 2^e
NaN == [neg |-> FALSE, cls |-> "nan", e |-> 0]

SignedZero(neg) == [neg |-> neg, cls |-> "zero", e |-> 0]

Infinity(neg) == [neg |-> neg, cls |-> "inf", e |-> 0]

PowerOfTwo(neg, e) == [neg |-> neg, cls |-> "finite", e |-> e]

\* real_t(1) / x, in IEEE arithmetic: 1 / 0 is an infinity of the sign of the
\* zero, 1 / 2^e overflows to an infinity when 2^-e is not finite
Reciprocal(x) ==
  CASE x.cls = "nan" -> NaN
    [] x.cls = "zero" -> Infinity(x.neg)
    [] x.cls = "inf" -> SignedZero(x.neg)
    [] OTHER -> IF -x.e > maxExponent THEN Infinity(x.neg) ELSE PowerOfTwo(x.neg, -x.e)

\* -x
Negated(x) == IF x.cls = "nan" THEN x ELSE [x EXCEPT !.neg = ~x.neg]

\* x <= real_t(0): false for a NaN, true for either zero
AtMostZero(x) == x.cls # "nan" /\ (x.cls = "zero" \/ x.neg)

\* x >= real_t(0)
AtLeastZero(x) == x.cls # "nan" /\ (x.cls = "zero" \/ ~x.neg)

\* x <= 0 as a real number, the condition the documentation names
\* "non-positive"
NonPositive(x) == AtMostZero(x)

----------------------------------------------------------------------------
(* Constructors of the distributions *)

NoThrow == "none"

\* what a constructor leaves: the object made, or the exception it raised
Constructed(kind, args, members) ==
  [kind |-> kind, args |-> args, members |-> members, error |-> NoThrow]

Thrown(kind, args, what) ==
  [kind |-> kind, args |-> args, members |-> << >>, error |-> what]

\* weibull::weibull(lambda_in, k_in)
weibull(lambda_in, k_in) ==
  LET kRecip == Reciprocal(k_in)
  IN  IF AtMostZero(lambda_in)
        THEN Thrown("weibull", <<lambda_in, k_in>>,
                    "pqRand::weibull: lambda must be greater than zero!")
      ELSE IF AtMostZero(kRecip)
        THEN Thrown("weibull", <<lambda_in, k_in>>,
                    "pqRand::weibull: k must be greater than zero!")
      ELSE Constructed("weibull", <<lambda_in, k_in>>, <<lambda_in, k_in, kRecip>>)

\* pareto::pareto(xMin_in, alpha_in); alpha_xM2alpha is computed from the
\* arguments and tested by nothing, so the members kept are the tested ones
pareto(xMin_in, alpha_in) ==
  LET negRecipAlpha == Negated(Reciprocal(alpha_in))
  IN  IF AtMostZero(xMin_in)
        THEN Thrown("pareto", <<xMin_in, alpha_in>>,
                    "pqRand::pareto: x_m must be greater than zero!")
      ELSE IF AtLeastZero(negRecipAlpha)
        THEN Thrown("pareto", <<xMin_in, alpha_in>>,
                    "pqRand::pareto: alpha must be greater than zero!")
      ELSE Constructed("pareto", <<xMin_in, alpha_in>>, <<xMin_in, alpha_in, negRecipAlpha>>)

\* carry into byte j of x + y
RECURSIVE AddCarry(_, _, _)
AddCarry(x, y, j) == IF j = 1 THEN 0 ELSE (x[j - 1] + y[j - 1] + AddCarry(x, y, j - 1)) \div 256

AddAt(x, y, j) == (x[j] + y[j] + AddCarry(x, y, j)) % 256

\* x + y, in uint64_t
Add(x, y) ==
  <<AddAt(x, y, 1), AddAt(x, y, 2), AddAt(x, y, 3), AddAt(x, y, 4),
    AddAt(x, y, 5), AddAt(x, y, 6), AddAt(x, y, 7), AddAt(x, y, 8)>>

\* x - y, in uint64_t
Sub(x, y) == Add(x, Inc(XOR(MaxWord, y)))

\* one step of the long division x % y: the remainder r of the bits above
\* bit i, doubled, with bit i added and y taken off if it fits
ModStep(x, y, i, r) ==
  LET shifted == OR(ShiftLeft(r, 1), WordOf(Bit(x, i)))
  IN  IF Bit(r, word_size - 1) = 1 \/ ~Less(shifted, y) THEN Sub(shifted, y) ELSE shifted

RECURSIVE ModBits(_, _, _, _, _)

\* the steps below bit hi, entered once those from bit hi up are done
ModBitsFrom(x, y, lo, hi, done) == CASE Len(done) = 8 -> ModBits(x, y, lo, hi, done)

\* the steps for bits hi - 1 down to lo, the upper half of them first
ModBits(x, y, lo, hi, r) ==
  IF hi - lo = 1 THEN ModStep(x, y, lo, r)
  ELSE ModBitsFrom(x, y, lo, (lo + hi) \div 2, ModBits(x, y, (lo + hi) \div 2, hi, r))

\* x % y for y > 0, by long division from the top bit down
Mod(x, y) == ModBits(x, y, 0, word_size, Zero)

\* uniform_integer::rightShift
rightShift == badBits

\* uniform_integer::biggestRand, engine::max() >> rightShift
biggestRand == ShiftRight(MaxWord, rightShift)

\* the instantiations modelled: int_t of the width of rand_t, unsigned and signed
IntegerTypes == {"uint64_t", "int64_t"}

\* x <= y in int_t
AtMostIn(int_t, x, y) ==
  IF int_t = "uint64_t" THEN ~Less(y, x) ELSE ~Less(XOR(y, TopBit), XOR(x, TopBit))

\* what the build makes of the division by spread = 0 in the initialiser of
\* maxRand, which is undefined: the division traps (the process is ended by
\* SIGFPE), or it is not evaluated before the tests of the constructor's body
DivisionByZero == {"trap", "deferred"}

SIGFPE == "SIGFPE: integer division by zero"

\* maxRand(biggestRand - (biggestRand % spread))
maxRandWithoutOne(spread) == Sub(biggestRand, Mod(biggestRand, spread))

\* the initialiser of maxRand
maxRandOf(spread) == Sub(biggestRand, Mod(Inc(Mod(biggestRand, spread)), spread))

\* uniform_integer<int_t>::uniform_integer(min_in, max_in)
uniform_integer(int_t, min_in, max_in, byZero) ==
  LET spread == Sub(max_in, min_in)
  IN  IF spread = Zero /\ byZero = "trap"
        THEN Thrown("uniform_integer", <<int_t, min_in, max_in>>, SIGFPE)
      ELSE IF AtMostIn(int_t, max_in, min_in)
        THEN Thrown("uniform_integer", <<int_t, min_in, max_in>>,
                    "pqRand::uniformInteger: max must be greater than min")
      ELSE IF Less(biggestRand, spread)
        THEN Thrown("uniform_integer", <<int_t, min_in, max_in>>,
                    "pqRand::uniformInteger: max is too large")
      ELSE Constructed("uniform_integer", <<int_t, min_in, max_in>>,
                       [min_ |-> min_in, max_ |-> max_in, spread |-> spread,
                        maxRand |-> maxRandOf(spread)])

\* the ends of the intervals tried: 0, 1, 2, 3, 5, 7, -1 and -3 (2^64 - 1
\* and 2^64 - 3 in uint64_t), and biggestRand, biggestRand + 1, biggestRand + 2
Ends ==
  {WordOf(n) : n \in {0, 1, 2, 3, 5, 7}} \cup {MaxWord, Sub(Zero, WordOf(3))}
    \cup {biggestRand, Inc(biggestRand), Inc(Inc(biggestRand))}

\* x = (gen() >> rightShift)
Shifted(word) == ShiftRight(word, rightShift)

\* while((x = (gen() >> rightShift)) > maxRand); on the words the generator
\* delivers: how many of them the loop draws
RECURSIVE DrawnUntilAccepted(_, _)
DrawnUntilAccepted(d, words) ==
  IF Less(d.members.maxRand, Shifted(Head(words)))
    THEN 1 + DrawnUntilAccepted(d, Tail(words))
  ELSE 1

\* uniform_integer<int_t>::operator()(gen): [used, x, value], used the words
\* drawn and x the last of them, shifted
uniform_integer_call(d, words) ==
  LET used == DrawnUntilAccepted(d, words)
      x == Shifted(words[used])
  IN  [used |-> used, x |-> x, value |-> Add(Mod(x, d.members.spread), d.members.min_)]

\* the shifted values tried for an object: the first of the generator's range,
\* those around one spread, around maxRand, and the largest
ShiftedTried(d) ==
  {Zero, WordOf(1), Dec(d.members.spread), d.members.spread,
   Inc(Sub(d.members.maxRand, d.members.spread)), Dec(d.members.maxRand), d.members.maxRand,
   biggestRand}
    \cup (IF d.members.maxRand = biggestRand THEN {} ELSE {Inc(d.members.maxRand)})

\* the words tried: a shifted value above the low bits 0 or 3
WordsTried(d) == {OR(ShiftLeft(x, rightShift), WordOf(low)) : x \in ShiftedTried(d), low \in {0, 3}}

\* the words the loop rejects and those it accepts
Redrawn(d) == {w \in WordsTried(d) : Less(d.members.maxRand, Shifted(w))}

Accepted(d) == WordsTried(d) \ Redrawn(d)

\* exponents of the finite parameters tried
ParameterExponents == {minExponent, -1, 0, 1, maxExponent}

\* the parameters tried: both zeros, both infinities, a NaN, and 2^e and -2^e
Parameters ==
  {NaN} \cup {SignedZero(neg) : neg \in BOOLEAN} \cup {Infinity(neg) : neg \in BOOLEAN}
        \cup {PowerOfTwo(neg, e) : neg \in BOOLEAN, e \in ParameterExponents}

\* words the loop of uniform_integer draws again in one call
MaxRedraws == 1

CtorInit ==
  /\ dist = [kind |-> "none"]
  /\ sample = [op |-> "none"]
  /\ GenIdle
  /\ EngIdle
  /\ UnevenIdle

Construct_weibull ==
  /\ dist.kind = "none"
  /\ \E lambda_in \in Parameters, k_in \in Parameters : dist' = weibull(lambda_in, k_in)
  /\ UNCHANGED <<sample, genVars, engVars, unevenVars>>

Construct_pareto ==
  /\ dist.kind = "none"
  /\ \E xMin_in \in Parameters, alpha_in \in Parameters : dist' = pareto(xMin_in, alpha_in)
  /\ UNCHANGED <<sample, genVars, engVars, unevenVars>>

Construct_uniform_integer ==
  /\ dist.kind = "none"
  /\ \E int_t \in IntegerTypes, min_in \in Ends, max_in \in Ends, byZero \in DivisionByZero :
       dist' = uniform_integer(int_t, min_in, max_in, byZero)
  /\ UNCHANGED <<sample, genVars, engVars, unevenVars>>

\* operator()(gen) of a constructed uniform_integer, the generator delivering
\* up to MaxRedraws words the loop draws again and then one it keeps.  The
\* object is const and the call changes none of its members, so one call
\* per object shows every call.
Sample_uniform_integer ==
  /\ dist.kind = "uniform_integer"
  /\ dist.error = NoThrow
  /\ sample.op = "none"
  /\ \E n \in 0..MaxRedraws :
       /\ n > 0 => Redrawn(dist) # {}
       /\ \E again \in [1..n -> Redrawn(dist)], kept \in Accepted(dist) :
            sample' = [op |-> "uniform_integer", words |-> again \o <<kept>>,
                       out |-> uniform_integer_call(dist, again \o <<kept>>)]
  /\ UNCHANGED <<dist, genVars, engVars, unevenVars>>

CtorNext ==
  Construct_weibull \/ Construct_pareto \/ Construct_uniform_integer \/ Sample_uniform_integer

SpecCtor == CtorInit /\ [][CtorNext]_vars

\* C13 (as claimed): the weibull and pareto constructors raise a domain error
\* whenever any of their parameters is <= 0, including exactly 0.  The code
\* tests 1/k and -1/alpha, and 1/(+0) = +inf is not <= 0, so weibull(1, +0) and
\* pareto(1, +0) are constructed.
C13_NonPositiveRejected ==
  (dist.kind \in {"weibull", "pareto"} /\ \E i \in 1..2 : NonPositive(dist.args[i]))
    => dist.error # NoThrow

\* C14 (as claimed): for every (min, max) with max <= min, max = min included,
\* constructing the bounded-integer sampler ends by raising a domain error, the
\* initialisers of spread and maxRand not failing in any other way first.  With
\* max = min the initialiser of maxRand divides by spread = 0.
C14_EmptyRangeRaisesDomainError ==
  (dist.kind = "uniform_integer" /\ AtMostIn(dist.args[1], dist.args[3], dist.args[2]))
    => dist.error = "pqRand::uniformInteger: max must be greater than min"

\* the value - min_ of a sample, in 0 .. spread - 1
Offset == Sub(sample.out.value, dist.members.min_)

\* C15: a constructed bounded-integer sampler returns only values in
\* [min, max) and is exactly uniform: maxRand + 1 is the largest multiple of
\* spread not above biggestRand + 1, the shifted raw values kept are those
\* not above maxRand, every one before the kept one being above it, and the
\* value returned is min plus the kept value's remainder modulo spread, so
\* that the (maxRand + 1) / spread kept values of each remainder map to one
\* output each.
C15_UniformOverRange ==
  sample.op = "uniform_integer" =>
    /\ ~Less(biggestRand, dist.members.spread)
    /\ Mod(Inc(dist.members.maxRand), dist.members.spread) = Zero
    /\ Less(Sub(biggestRand, dist.members.maxRand), dist.members.spread)
    /\ sample.out.used = Len(sample.words)
    /\ \A i \in 1..Len(sample.words) :
         (i < sample.out.used) <=> Less(dist.members.maxRand, ShiftRight(sample.words[i], badBits))
    /\ sample.out.x = ShiftRight(sample.words[sample.out.used], badBits)
    /\ Less(Offset, dist.members.spread)
    /\ Mod(Sub(sample.out.x, Offset), dist.members.spread) = Zero
    /\ AtMostIn(dist.args[1], dist.members.min_, sample.out.value)
    /\ ~AtMostIn(dist.args[1], dist.members.max_, sample.out.value)

\* a call on a range of three values that drew a word again, then kept the
\* largest value it may keep and returned max - 1
C15_Witness ==
  /\ sample.op = "uniform_integer"
  /\ sample.out.used = 2
  /\ sample.out.x = dist.members.maxRand
  /\ dist.members.maxRand # biggestRand
  /\ dist.members.spread = WordOf(3)
  /\ sample.out.value = Dec(dist.members.max_)

----------------------------------------------------------------------------
(* real_t arithmetic on values that are not negative: products and sums,   *)
(* rounded to nearest, ties to even                                         *)

\* column j of the full product x * y: the byte products of weight 256^(j - 1)
RECURSIVE WideColumn(_, _, _, _)
WideColumn(x, y, j, i) ==
  IF i > 8 \/ i > j THEN 0
  ELSE (IF j + 1 - i <= 8 THEN x[i] * y[j + 1 - i] ELSE 0) + WideColumn(x, y, j, i + 1)

\* carry out of byte j of the full product
RECURSIVE WideCarry(_, _, _)
WideCarry(x, y, j) ==
  IF j = 0 THEN 0 ELSE (WideColumn(x, y, j, 1) + WideCarry(x, y, j - 1)) \div 256

WideByte(x, y, j) == (WideColumn(x, y, j, 1) + WideCarry(x, y, j - 1)) % 256

\* x * y in full, 128 bits: [lo, hi]
WideProduct(x, y) ==
  [lo |-> SubSeq([j \in 1..8 |-> WideByte(x, y, j)], 1, 8),
   hi |-> SubSeq([j \in 1..8 |-> WideByte(x, y, j + 8)], 1, 8)]

\* (x << d) + y in full, for 0 <= d < 64: [lo, hi]
WideSum(x, d, y) ==
  LET lo == Add(ShiftLeft(x, d), y)
      hi == IF d = 0 THEN Zero ELSE ShiftRight(x, word_size - d)
  IN  [lo |-> lo, hi |-> IF Less(lo, y) THEN Inc(hi) ELSE hi]

\* the highest bit set in w # 0
WideHighBit(w) == IF w.hi = Zero THEN HighBit(w.lo) ELSE word_size + HighBit(w.hi)

\* w without its sh lowest bits, 0 < sh < 64
WideShiftRight(w, sh) == OR(ShiftLeft(w.hi, word_size - sh), ShiftRight(w.lo, sh))

\* w * 2^e as a double, b the highest bit of w
RoundWideAt(w, e, b) ==
  IF b < numBitsMantissa
    THEN [m |-> ShiftLeft(w.lo, numBitsMantissa - 1 - b), e |-> e + b + 1 - numBitsMantissa]
  ELSE LET sh == b + 1 - numBitsMantissa
           v == Normalised(Rounded(WideShiftRight(w, sh), ShiftLeft(w.lo, word_size - sh)), sh)
       IN  [v EXCEPT !.e = @ + e]

RoundWide(w, e) == RoundWideAt(w, e, WideHighBit(w))

\* a * b
Times(a, b) ==
  IF a.m = Zero \/ b.m = Zero THEN [m |-> Zero, e |-> 0]
  ELSE TimesPow2(RoundWide(WideProduct(a.m, b.m), 0), a.e + b.e)

\* a + b for a.e >= b.e, neither zero: b is below half a unit in the last
\* place of a once the exponents are more than 53 apart
PlusOrdered(a, b) ==
  IF a.e - b.e > numBitsMantissa THEN a ELSE RoundWide(WideSum(a.m, a.e - b.e, b.m), b.e)

\* a + b
Plus(a, b) ==
  IF a.m = Zero THEN b
  ELSE IF b.m = Zero THEN a
  ELSE IF a.e >= b.e THEN PlusOrdered(a, b) ELSE PlusOrdered(b, a)

\* a < b
LessReal(a, b) ==
  IF b.m = Zero THEN FALSE
  ELSE IF a.m = Zero THEN TRUE
  ELSE a.e < b.e \/ (a.e = b.e /\ Less(a.m, b.m))

\* real_t(n) for an integer n > 0
RealNumber(n) == RealOf(WordOf(n))

----------------------------------------------------------------------------
(* Generator states that deliver given words.  The multiplication by an     *)
(* odd constant and the two xorshifts of operator()() are one-to-one, so    *)
(* for every 15 words there is a state whose next 15 results they are.      *)

\* the inverse of Multiplier modulo 2^64
MultiplierInverse == <<157, 200, 196, 218, 139, 247, 145, 187>>

\* the a with a ^ (a >> 11) = c
UnshiftRight11(c) ==
  XOR(XOR(XOR(c, ShiftRight(c, 11)), XOR(ShiftRight(c, 22), ShiftRight(c, 33))),
      XOR(ShiftRight(c, 44), ShiftRight(c, 55)))

\* the s1 with s1 ^ (s1 << 31) = a
Unsmear(a) == XOR(XOR(a, ShiftLeft(a, 31)), ShiftLeft(a, 62))

\* the s1 that operator()() scrambles with s0 into the word stored
Unscramble(stored, s0) == Unsmear(UnshiftRight11(XOR(XOR(stored, s0), ShiftRight(s0, 30))))

\* the word stored when `word` is the result
StoredFor(word) == Mul(word, MultiplierInverse)

\* state[k] of the state delivering `words`, 0 <= k < 16
DeliveringAt(words, k) ==
  IF k = 0 \/ k > Len(words) THEN TestWord(3, k)
  ELSE Unscramble(StoredFor(words[k]),
                  IF k = 1 THEN TestWord(3, 0) ELSE StoredFor(words[k - 1]))

\* the generator whose next results are `words`, at most 15 of them
Delivering(words) ==
  [state |-> SubSeq([k \in 1..state_size |-> DeliveringAt(words, k - 1)], 1, state_size),
   p |-> 0]

----------------------------------------------------------------------------
(* standard_normal, normal and log_normal: the Marsaglia polar method.  A   *)
(* variate is kept as what it is computed from, [kind, negative, of, u,     *)
(* small]: for standard_normal the value `of`, given the sign `negative`,   *)
(* times sqrt(-2 log(u / 2) / u) if small and sqrt(-2 log1p(-u / 2) / u)    *)
(* if not; normal and log_normal transform that value.                      *)

RealOne == RealNumber(1)

RealTwo == RealNumber(2)

RealThree == RealNumber(3)

\* gen.U_even() * real_t(3) < real_t(2), read the other way round
AuxRejectsAbove(aux) == ~LessReal(Times(aux, RealThree), RealTwo)

\* gen.U_even() * real_t(3) < real_t(2)
AuxRejects(aux) == LessReal(Times(aux, RealThree), RealTwo)

\* the pass with u == 1: U_even() is drawn, and u = 2 if it rejects
PolarOnBoundary(dx, dy, u, da) ==
  [x |-> dx.out, y |-> dy.out, u |-> u, aux |-> <<da.out>>,
   rejected |-> AuxRejects(da.out), eng |-> da.eng]

\* if((u == 1) and (gen.U_even() * 3 < 2)) u = 2; ... while(u > 1)
PolarDecided(dx, dy, u, wraps) ==
  IF IsOne(u) THEN PolarOnBoundary(dx, dy, u, Draw("U_even", dy.eng, wraps))
  ELSE [x |-> dx.out, y |-> dy.out, u |-> u, aux |-> << >>,
        rejected |-> LessReal(RealOne, u), eng |-> dy.eng]

\* u = pair.x * pair.x + pair.y * pair.y
PolarSummed(dx, dy, wraps) ==
  PolarDecided(dx, dy, Plus(Times(dx.out, dx.out), Times(dy.out, dy.out)), wraps)

\* pair.y = gen.U_uneven()
PolarSecond(dx, wraps) == PolarSummed(dx, Draw("U_uneven", dx.eng, wraps), wraps)

\* one pass of the do-while loop of GetTwo: [x, y, u, aux, rejected, eng],
\* aux the value of U_even() if it was drawn
PolarPass(e, wraps) == PolarSecond(Draw("U_uneven", e, wraps), wraps)

\* a pass as the trace keeps it
PassOf(pass) ==
  [x |-> pass.x, y |-> pass.y, u |-> pass.u, aux |-> pass.aux, rejected |-> pass.rejected]

RECURSIVE PolarLoop(_, _, _)

PolarLoopNext(pass, passes, wraps) ==
  IF pass.rejected THEN PolarLoop(pass.eng, passes \o <<PassOf(pass)>>, wraps)
  ELSE [x |-> pass.x, y |-> pass.y, u |-> pass.u, passes |-> passes \o <<PassOf(pass)>>,
        eng |-> pass.eng]

\* do { ... } while(u > real_t(1)): [x, y, u, passes, eng]
PolarLoop(e, passes, wraps) == PolarLoopNext(PolarPass(e, wraps), passes, wraps)

\* the variate of `kind` made from a value of the loop
Variate(kind, negative, of, u, small) ==
  [kind |-> kind, negative |-> negative, of |-> of, u |-> u, small |-> small]

\* gen.ApplyRandomSign(pair.x); gen.ApplyRandomSign(pair.y); then the
\* quantile flip-flop on gen.RandBool()
PolarScaled(kind, loop, sx, sy, flip) ==
  [x |-> Variate(kind, sx.negative, loop.x, loop.u, flip.decision),
   y |-> Variate(kind, sy.negative, loop.y, loop.u, flip.decision),
   passes |-> loop.passes, eng |-> flip.eng]

PolarSignedY(kind, loop, sx, sy) == PolarScaled(kind, loop, sx, sy, RandBool(sy.eng))

PolarSignedX(kind, loop, sx) == PolarSignedY(kind, loop, sx, ApplyRandomSign(sx.eng, FALSE))

PolarSigned(kind, loop) == PolarSignedX(kind, loop, ApplyRandomSign(loop.eng, FALSE))

\* standard_normal::GetTwo(gen), and normal::GetTwo and log_normal::GetTwo,
\* which transform its pair: [x, y, passes, eng]
GetTwo(kind, e, wraps) == PolarSigned(kind, PolarLoop(e, << >>, wraps))

\* the call that finds no value cached: the pair is drawn, y is kept
SingleValueOfPair(d, two) ==
  [out |-> two.x, dist |-> [d EXCEPT !.valueCached = TRUE, !.cache = two.y],
   eng |-> two.eng, twos |-> <<two.passes>>]

\* operator()(gen) with valueCached left set
SingleValueFlagKept(d, e, wraps) ==
  IF d.valueCached THEN [out |-> d.cache, dist |-> d, eng |-> e, twos |-> << >>]
  ELSE SingleValueOfPair(d, GetTwo(d.kind, e, wraps))

\* standard_normal::operator()(gen): [out, dist, eng, twos], twos the passes
\* of each run of GetTwo
SingleValue(d, e, wraps) ==
  IF d.valueCached
    THEN [out |-> d.cache, dist |-> [d EXCEPT !.valueCached = FALSE], eng |-> e, twos |-> << >>]
  ELSE SingleValueOfPair(d, GetTwo(d.kind, e, wraps))

----------------------------------------------------------------------------
(* One sampler, two engines, single-value calls in any order *)

\* single-value calls in one behaviour
MaxCalls == 4

\* values of U_even() tried from each of 0, 2/3 and 1, up or down
MaxAux == 256

\* the least k for which U_even() = k * 2^-53 times 3 is not below 2 in
\* double arithmetic, (2^54 - 1) / 3: the product 2 - 2^-53 is a tie and
\* rounds to 2
LeastAccepted == <<85, 85, 85, 85, 85, 85, 21, 0>>

\* the word whose U_even() is k * 2^-53
AuxWord(k) == ShiftLeft(k, bitShiftRight_even)

\* the words of a pass; the second word of a pair below minEntropy is
\* topped up from the word after it.
\*   inside:  x = y = 0.5, u = 0.5
\*   outside: x = y = 1, u = 2
\*   under:   x = 1 - 2^-53, y about 2^-44, u = 1 - 2^-52
\*   over:    x = 1, y about 2^-26, u = 1 + 2^-52
\*   edge:    x = 1, y about 2^-44, u = 1, then the word of U_even()
PassWords(pass) ==
  CASE pass = "inside" -> <<TopBit, TopBit>>
    [] pass = "outside" -> <<MaxWord, MaxWord>>
    [] pass = "under" -> <<AuxWord(Dec(ShiftLeft(MinMantissa, 1))), ShiftLeft(WordOf(1), 20), TestWord(2, 6)>>
    [] pass = "over" -> <<MaxWord, ShiftLeft(WordOf(1), 38), Zero>>
    [] pass = "edge0" -> <<MaxWord, ShiftLeft(WordOf(1), 20), TestWord(2, 6), Zero>>
    [] pass = "edgeBelow" ->
         <<MaxWord, ShiftLeft(WordOf(1), 20), TestWord(2, 6), AuxWord(Dec(LeastAccepted))>>
    [] pass = "edgeLeast" ->
         <<MaxWord, ShiftLeft(WordOf(1), 20), TestWord(2, 6), AuxWord(LeastAccepted)>>
    [] pass = "edgeMost" -> <<MaxWord, ShiftLeft(WordOf(1), 20), TestWord(2, 6), MaxWord>>

RejectedPasses == {"outside", "over", "edge0", "edgeBelow"}

AcceptedPasses == {"inside", "under", "edgeLeast", "edgeMost"}

\* the words of the passes of a loop
RECURSIVE WordsOfPasses(_)
WordsOfPasses(passes) ==
  IF passes = << >> THEN << >> ELSE PassWords(Head(passes)) \o WordsOfPasses(Tail(passes))

\* the loops tried: an accepted pass, alone or after a rejected one
Loops ==
  {<<accepted>> : accepted \in AcceptedPasses}
    \cup {<<rejected, accepted>> : rejected \in RejectedPasses, accepted \in AcceptedPasses}

\* an engine about to deliver `words`, its bit cache used up or half used
EngineDelivering(words, cacheMask) ==
  [gen |-> Delivering(words), bitCache |-> TestWord(5, 5), cacheMask |-> cacheMask]

NormalKinds == {"standard_normal", "normal", "log_normal"}

\* the member `cache`, which the constructor leaves uninitialised
NoVariate == Variate("none", FALSE, [m |-> Zero, e |-> 0], [m |-> Zero, e |-> 0], FALSE)

\* the values of U_even() tried against the test of the loop, step by step
NoAuxScan == [active |-> FALSE, done |-> 0, accepted |-> << >>]

CallsInit ==
  /\ \E kind \in NormalKinds :
       dist = [kind |-> kind, valueCached |-> FALSE, cache |-> NoVariate]
  /\ \E loop \in Loops, cacheMask \in {replenishBitCache, ShiftLeft(WordOf(1), 31)} :
       eng = EngineDelivering(WordsOfPasses(loop), cacheMask)
  /\ copy = [made |-> TRUE, eng |-> EngineDelivering(WordsOfPasses(<<"outside", "inside">>),
                                                      replenishBitCache),
             out |-> << >>]
  /\ sample = [op |-> "none", calls |-> 0, engine |-> 0, out |-> NoVariate, twos |-> << >>,
               before |-> <<dist, eng, copy.eng>>]
  /\ text = NoText
  /\ last = [op |-> "none", error |-> NoError, before |-> << >>, out |-> << >>]
  /\ count = NoCount
  /\ GenIdle
  /\ draw = NoDraw
  /\ scan = NoAuxScan

\* the scan of the values of U_even() starts with no call made
AuxInit ==
  /\ dist = [kind |-> "standard_normal", valueCached |-> FALSE, cache |-> NoVariate]
  /\ sample = [op |-> "none", calls |-> 0, engine |-> 0, out |-> NoVariate, twos |-> << >>,
               before |-> << >>]
  /\ scan = [NoAuxScan EXCEPT !.active = TRUE]
  /\ draw = NoDraw
  /\ GenIdle
  /\ EngIdle

NormalInit == CallsInit \/ AuxInit

\* the call made on the first engine, and the call made on the second
Called(engine, did) ==
  /\ dist' = did.dist
  /\ eng' = IF engine = 1 THEN did.eng ELSE eng
  /\ copy' = IF engine = 2 THEN [copy EXCEPT !.eng = did.eng] ELSE copy
  /\ sample' = [op |-> "operator()", calls |-> sample.calls + 1, engine |-> engine,
                out |-> did.out, twos |-> did.twos, before |-> <<dist, eng, copy.eng>>]

\* dist(gen), gen either engine
NormalCall ==
  /\ ~scan.active
  /\ sample.calls < MaxCalls
  /\ \E engine \in {1, 2}, wraps \in BOOLEAN :
       Called(engine, SingleValue(dist, IF engine = 1 THEN eng ELSE copy.eng, wraps))
  /\ UNCHANGED <<text, last, count, genVars, unevenVars>>

\* the value k * 2^-53 of U_even() passes the test of the loop: the pair
\* with u = 1 is accepted
AuxAccepted(k) == ~AuxRejects(U_even(AuxWord(k)))

\* the largest k, 2^53 - 1
MostAux == Dec(ShiftLeft(MinMantissa, 1))

\* the values tried at step `done`: counted up from 0 and from
\* LeastAccepted, and down from 2^53 - 1 and from LeastAccepted - 1
AuxTried(done) ==
  <<WordOf(done), Sub(Dec(LeastAccepted), WordOf(done)),
    Add(LeastAccepted, WordOf(done)), Sub(MostAux, WordOf(done))>>

\* the test of the loop on the four values of the next step
AuxScan ==
  /\ scan.active /\ scan.done < MaxAux
  /\ scan' = [active |-> TRUE, done |-> scan.done + 1,
              accepted |-> [i \in 1..4 |-> AuxAccepted(AuxTried(scan.done)[i])]]
  /\ UNCHANGED <<draw, dist, sample, genVars, engVars>>

NormalNext == NormalCall \/ AuxScan

SpecNormal == NormalInit /\ [][NormalNext]_vars

\* the pair GetTwo makes of the engine the last call was given
PairBefore == GetTwo(dist.kind, sample.before[sample.engine + 1], TRUE)

\* C16: on any sequence of single-value calls to one normal or log-normal
\* sampler, with either engine passed to each, the odd calls run the
\* two-value step once, return its first value and store the second with the
\* flag set; the even calls return the stored value, clear the flag, and
\* leave both engines as they were.
C16_CallsAlternate ==
  /\ dist.valueCached <=> sample.calls % 2 = 1
  /\ (sample.calls > 0 /\ sample.calls % 2 = 1) =>
       /\ ~sample.before[1].valueCached
       /\ Len(sample.twos) = 1
       /\ sample.out = PairBefore.x
       /\ dist.cache = PairBefore.y
       /\ <<eng, copy.eng>>[sample.engine] = PairBefore.eng
  /\ (sample.calls > 0 /\ sample.calls % 2 = 0) =>
       /\ sample.before[1].valueCached
       /\ sample.twos = << >>
       /\ sample.out = sample.before[1].cache
       /\ eng = sample.before[2]
       /\ copy.eng = sample.before[3]

\* the fourth call, made with the first engine after the second engine has
\* been drawn from, returned what the third call had stored
C16_Witness ==
  /\ sample.calls = 4
  /\ sample.engine = 1
  /\ sample.out = sample.before[1].cache
  /\ sample.out.kind = "log_normal"
  /\ sample.before[3] # EngineDelivering(WordsOfPasses(<<"outside", "inside">>),
                                         replenishBitCache)

\* the passes of the loops the last call ran
PassesOfCall == IF sample.twos = << >> THEN << >> ELSE sample.twos[1]

\* aux * 3 < 2 for the value U_even() gave a pass
TimesThreeBelowTwo(pass) == LessReal(Times(pass.aux[1], RealThree), RealTwo)

\* C17 (as claimed): U_even() is drawn only when u = x^2 + y^2 equals 1
\* exactly, and then the pair is rejected unless the draw times 3 is below 2;
\* when u # 1 nothing is drawn and the pair is rejected iff u > 1.
C17_AcceptedWhenBelow ==
  \A i \in 1..Len(PassesOfCall) :
    LET pass == PassesOfCall[i]
    IN  /\ pass.aux # << >> <=> IsOne(pass.u)
        /\ pass.aux # << >> => (pass.rejected <=> ~TimesThreeBelowTwo(pass))
        /\ pass.aux = << >> => (pass.rejected <=> LessReal(RealOne, pass.u))

\* C17: U_even() is drawn only when u = x^2 + y^2 equals 1 exactly, and
\* then the pair is rejected iff the draw times 3 is below 2, accepted when it
\* is 2 or more; when u # 1 nothing is drawn and the pair is rejected iff
\* u > 1.  A loop ends with the first pass not rejected.
C17_RejectedWhenBelow ==
  \A i \in 1..Len(PassesOfCall) :
    LET pass == PassesOfCall[i]
    IN  /\ pass.aux # << >> <=> IsOne(pass.u)
        /\ pass.aux # << >> => (pass.rejected <=> TimesThreeBelowTwo(pass))
        /\ pass.aux = << >> => (pass.rejected <=> LessReal(RealOne, pass.u))
        /\ pass.rejected <=> i < Len(PassesOfCall)
        /\ pass.u = Plus(Times(pass.x, pass.x), Times(pass.y, pass.y))

\* a loop of two passes with u = 1, the first rejected with U_even() one
\* step below 2/3 and the second accepted with U_even() at the least value
\* whose triple is not below 2
C17_Witness ==
  /\ Len(PassesOfCall) = 2
  /\ IsOne(PassesOfCall[1].u) /\ PassesOfCall[1].rejected
  /\ PassesOfCall[1].aux = <<U_even(AuxWord(Dec(LeastAccepted)))>>
  /\ IsOne(PassesOfCall[2].u) /\ ~PassesOfCall[2].rejected
  /\ PassesOfCall[2].aux = <<U_even(AuxWord(LeastAccepted))>>

\* C18: of the values a = k * 2^-53 of U_even(), 0 <= k < 2^53, a pair
\* with u = 1 is accepted with exactly those whose triple, in double
\* arithmetic, is 2 or more: those from k = (2^54 - 1) / 3 up, which are
\* (2^53 + 1) / 3 of the 2^53 values, one third up to one grid point.  (The
\* product is increasing in k, and is tried for the k next to 0, next to the
\* least accepted and next to 2^53 - 1.)
C18_ThirdAccepted ==
  /\ Mul(LeastAccepted, WordOf(3)) = Dec(ShiftLeft(MinMantissa, 2))
  /\ Mul(Sub(ShiftLeft(MinMantissa, 1), LeastAccepted), WordOf(3)) = Inc(ShiftLeft(MinMantissa, 1))
  /\ scan.done > 0 => scan.accepted = <<FALSE, FALSE, TRUE, TRUE>>

\* the scan has tried the least accepted value, the one below it, 0 and
\* 2^53 - 1, and values further from them
C18_Witness == scan.active /\ scan.done > 1 /\ scan.accepted[3] /\ ~scan.accepted[2]

----------------------------------------------------------------------------
(* The quantile flip-flop of exponential, weibull, logistic and             *)
(* log_logistic, and the gamma sampler that proposes from a log_logistic.   *)
(* A variate is kept as what it is computed from: [q, u], the quantile       *)
(* function evaluated and its argument.                                      *)

\* weibull::operator()(gen) and exponential::operator()(gen) of
\* source/distributions.cpp: hu = gen.HalfU_Q(), then if(gen.RandBool());
\* -log(hu) is the formula of Q_large and -log1p(-hu) that of Q_small
FlipFlopDrawFirstThen(h, flip) ==
  [q |-> IF flip.decision THEN "Q_large" ELSE "Q_small", u |-> h.out, eng |-> flip.eng,
   calls |-> <<"HalfU_uneven", "RandBool">>]

FlipFlopDrawFirstOn(h) == FlipFlopDrawFirstThen(h, RandBool(h.eng))

FlipFlopDrawFirst(e, wraps) == FlipFlopDrawFirstOn(Draw("HalfU_uneven", e, wraps))

\* distributionQ2::operator()(gen): if(gen.RandBool()) return
\* Q_small(gen.HalfU_uneven()); else return Q_large(gen.HalfU_uneven());
FlipFlopThen(flip, h) ==
  [q |-> IF flip.decision THEN "Q_small" ELSE "Q_large", u |-> h.out, eng |-> h.eng,
   calls |-> <<"RandBool", "HalfU_uneven">>]

FlipFlopOn(flip, wraps) == FlipFlopThen(flip, Draw("HalfU_uneven", flip.eng, wraps))

\* the sampler with the two quantile functions taken for each other
FlipFlopSwapped(e, wraps) == FlipFlopOn([RandBool(e) EXCEPT !.decision = ~@], wraps)

FlipFlop(e, wraps) == FlipFlopOn(RandBool(e), wraps)

\* the two definitions of the sampler: in distributionQ2, for the four
\* distributions, and in source/distributions.cpp, for two of them
FlipFlopVariants == {"distributionQ2", "source"}

FlipFlopKinds(variant) ==
  IF variant = "distributionQ2" THEN {"exponential", "weibull", "logistic", "log_logistic"}
  ELSE {"exponential", "weibull"}

FlipFlopOf(variant, e, wraps) ==
  IF variant = "distributionQ2" THEN FlipFlop(e, wraps) ELSE FlipFlopDrawFirst(e, wraps)

\* the largest double below v > 0
Below(v) ==
  IF v.m = MinMantissa THEN [m |-> Dec(ShiftLeft(MinMantissa, 1)), e |-> v.e - 1]
  ELSE [v EXCEPT !.m = Dec(@)]

\* acceptProbability is made of exp and pow of the candidate, which are not
\* computed here: it is an input, given by where it lies for the uniform
\* variate about to be drawn, just below it, equal to it, or 1
Ratios == {"below", "equal", "one"}

RatioAt(ratio, U) ==
  CASE ratio = "below" -> Below(U)
    [] ratio = "equal" -> U
    [] ratio = "one" -> RealOne

\* return (gen.U_uneven() >= acceptProbability)
GammaRejectsEqual(U, acceptProbability) == ~LessReal(U, acceptProbability)

\* Reject: return (gen.U_uneven() > acceptProbability)
GammaRejects(U, acceptProbability) == LessReal(acceptProbability, U)

\* one pass of while(Reject(x = proposal(gen), gen)): [x, U, ratio, rejected, eng]
GammaDrawn(cand, drawn, ratio) ==
  [x |-> [q |-> cand.q, u |-> cand.u], U |-> drawn.out, ratio |-> RatioAt(ratio, drawn.out),
   rejected |-> GammaRejects(drawn.out, RatioAt(ratio, drawn.out)), eng |-> drawn.eng]

GammaProposed(cand, ratio, wraps) == GammaDrawn(cand, Draw("U_uneven", cand.eng, wraps), ratio)

GammaPass(e, ratio, wraps) == GammaProposed(FlipFlop(e, wraps), ratio, wraps)

\* a pass as the trace keeps it
GammaPassOf(pass) ==
  [x |-> pass.x, U |-> pass.U, ratio |-> pass.ratio, rejected |-> pass.rejected]

\* passes of the loop of the gamma sampler followed in one call
MaxPasses == 3

RECURSIVE GammaLoop(_, _, _, _)

\* the loop after a pass: left if the pass is not rejected; followed no
\* further than MaxPasses passes, the call then still running
GammaLoopNext(pass, ratios, passes, wraps) ==
  IF pass.rejected /\ Len(passes) + 1 < MaxPasses
    THEN GammaLoop(pass.eng, ratios, passes \o <<GammaPassOf(pass)>>, wraps)
  ELSE [returned |-> ~pass.rejected, out |-> [quotient |-> pass.x, by |-> "lambda_"],
        eng |-> pass.eng, passes |-> passes \o <<GammaPassOf(pass)>>]

\* gammaDist::operator()(gen): while(Reject(x = proposal(gen), gen));
\* return x / lambda_: [returned, out, eng, passes], ratios[i] the
\* acceptProbability of pass i
GammaLoop(e, ratios, passes, wraps) ==
  GammaLoopNext(GammaPass(e, ratios[Len(passes) + 1], wraps), ratios, passes, wraps)

gammaDist_call(e, ratios, wraps) == GammaLoop(e, ratios, << >>, wraps)

----------------------------------------------------------------------------
(* Samplers that flip-flop, on engines whose first words are given *)

\* the first words of an engine: the word of RandBool() or of
\* HalfU_uneven(), whichever is drawn first, then the others
FirstWords ==
  {<<TopBit, MaxWord, WordOf(1), TestWord(2, 6)>>,
   <<MaxWord, TopBit, Dec(minEntropy), Zero>>,
   <<WordOf(255), TestWord(2, 6), Dec(TopBit), MaxWord>>,
   <<Zero, Zero, TopBit, WordOf(1), MaxWord>>}

\* cacheMask at the sentinel, at its last bit and half way
CacheMasks == {replenishBitCache, ShiftLeft(replenishBitCache, 1), ShiftLeft(WordOf(1), 31)}

NoFlipFlop == [q |-> "none", u |-> [m |-> Zero, e |-> 0]]

QuantileInit ==
  /\ \E variant \in FlipFlopVariants :
       \E kind \in FlipFlopKinds(variant) \cup (IF variant = "distributionQ2" THEN {"gammaDist"} ELSE {}) :
         dist = [kind |-> kind, variant |-> variant]
  /\ \E words \in FirstWords, cacheMask \in CacheMasks :
       eng = EngineDelivering(words, cacheMask)
  /\ sample = [op |-> "none", calls |-> 0, out |-> NoFlipFlop, drew |-> << >>, passes |-> << >>,
               returned |-> TRUE, before |-> eng]
  /\ copy = NoCopy
  /\ text = NoText
  /\ last = [op |-> "none", error |-> NoError, before |-> << >>, out |-> << >>]
  /\ count = NoCount
  /\ GenIdle
  /\ UnevenIdle

FlipFlopped(did) ==
  /\ eng' = did.eng
  /\ sample' = [op |-> "operator()", calls |-> sample.calls + 1, out |-> [q |-> did.q, u |-> did.u],
                drew |-> did.calls, passes |-> << >>, returned |-> TRUE, before |-> eng]

\* dist(gen) for a distribution that flip-flops
QuantileSample ==
  /\ dist.kind # "gammaDist"
  /\ sample.calls < MaxCalls
  /\ \E wraps \in BOOLEAN : FlipFlopped(FlipFlopOf(dist.variant, eng, wraps))
  /\ UNCHANGED <<dist, copy, text, last, count, genVars, unevenVars>>

GammaSampled(did) ==
  /\ eng' = did.eng
  /\ sample' = [op |-> "operator()", calls |-> sample.calls + 1, out |-> did.out,
                drew |-> << >>, passes |-> did.passes, returned |-> did.returned, before |-> eng]

\* dist(gen) for a gammaDist; a call the loop of which is not left within
\* MaxPasses passes is followed no further
GammaSample ==
  /\ dist.kind = "gammaDist"
  /\ sample.returned
  /\ sample.calls < MaxCalls
  /\ \E ratios \in [1..MaxPasses -> Ratios], wraps \in BOOLEAN :
       GammaSampled(gammaDist_call(eng, ratios, wraps))
  /\ UNCHANGED <<dist, copy, text, last, count, genVars, unevenVars>>

QuantileNext == QuantileSample \/ GammaSample

SpecQuantile == QuantileInit /\ [][QuantileNext]_vars

\* 0.5
RealHalf == TimesPow2(RealOne, -1)

\* u is in (0, 0.5]
InHalfRange(u) == Positive(u) /\ ~LessReal(RealHalf, u)

\* the sample is HalfU_uneven() drawn first, then RandBool()
DrawThenBool ==
  \E wraps \in BOOLEAN :
    LET h == Draw("HalfU_uneven", sample.before, wraps)
    IN  /\ sample.out.u = h.out
        /\ eng = RandBool(h.eng).eng
        /\ sample.out.q \in {"Q_small", "Q_large"}

\* the sample is RandBool() first, then HalfU_uneven()
BoolThenDraw ==
  \E wraps \in BOOLEAN :
    LET flip == RandBool(sample.before)
        h == Draw("HalfU_uneven", flip.eng, wraps)
    IN  /\ sample.out.u = h.out
        /\ eng = h.eng
        /\ sample.out.q = IF flip.decision THEN "Q_small" ELSE "Q_large"

FlipFlopSampled == sample.op = "operator()" /\ dist.kind # "gammaDist"

\* C19 (as claimed): each quantile flip-flop sample performs one half-range
\* uneven draw and one RandBool, first the draw and then the boolean, and
\* evaluates one of Q_small(u), Q_large(u), with u in (0, 0.5].
C19_DrawThenBool ==
  FlipFlopSampled => (DrawThenBool /\ InHalfRange(sample.out.u))

\* C19: each quantile flip-flop sample performs one RandBool and one
\* half-range uneven draw and evaluates one of Q_small(u), Q_large(u), with
\* u in (0, 0.5].  distributionQ2::operator() calls RandBool first and draws
\* u after it; weibull::operator() and exponential::operator() of
\* source/distributions.cpp draw u first and call RandBool after it.
C19_OrderPerDefinition ==
  FlipFlopSampled =>
    /\ InHalfRange(sample.out.u)
    /\ dist.variant = "distributionQ2" => (BoolThenDraw /\ sample.drew = <<"RandBool", "HalfU_uneven">>)
    /\ dist.variant = "source" => (DrawThenBool /\ sample.drew = <<"HalfU_uneven", "RandBool">>)
    /\ eng.cacheMask = ShiftRight(Replenish(sample.before).cacheMask, 1)

\* a log_logistic sample whose RandBool found the bit cache used up and drew
\* the word 2^63 for it, so that u is made of the word after it, 2^64 - 1,
\* and is 0.5
C19_Witness ==
  /\ FlipFlopSampled
  /\ dist.kind = "log_logistic"
  /\ sample.calls = 1
  /\ sample.before.cacheMask = replenishBitCache
  /\ eng.bitCache = TopBit
  /\ IsHalf(sample.out.u)
  /\ sample.out.q = "Q_small"

GammaCalled == sample.op = "operator()" /\ dist.kind = "gammaDist"

\* the first pass draws the candidate from the proposal, then U_uneven()
CandidateThenUniform ==
  \E wraps \in BOOLEAN :
    LET cand == FlipFlop(sample.before, wraps)
    IN  /\ sample.passes[1].x = [q |-> cand.q, u |-> cand.u]
        /\ sample.passes[1].U = Draw("U_uneven", cand.eng, wraps).out
        /\ Len(sample.passes) = 1 => eng = Draw("U_uneven", cand.eng, wraps).eng

\* the passes but the last are rejected, the last is not if the call has
\* returned, and the value returned is the last candidate over lambda
LastPassReturned ==
  /\ \A i \in 1..Len(sample.passes) :
       sample.passes[i].rejected <=> (i < Len(sample.passes) \/ ~sample.returned)
  /\ sample.out = [quotient |-> sample.passes[Len(sample.passes)].x, by |-> "lambda_"]

\* C20 (as claimed): each pass of the gamma sampler draws a candidate x from
\* the log-logistic proposal and then a uniform variate U, and accepts x iff
\* U is strictly less than the acceptance ratio, U equal to the ratio being
\* rejected; the value returned is the accepted x over lambda.
C20_AcceptedIffBelow ==
  GammaCalled =>
    /\ CandidateThenUniform
    /\ LastPassReturned
    /\ \A i \in 1..Len(sample.passes) :
         ~sample.passes[i].rejected <=> LessReal(sample.passes[i].U, sample.passes[i].ratio)

\* C20: each pass of the gamma sampler draws a candidate x from the
\* log-logistic proposal and then a uniform variate U, and rejects x iff U is
\* greater than the acceptance ratio: x is accepted when U is less than or
\* equal to the ratio; the value returned is the accepted x over lambda.
C20_RejectedIffAbove ==
  GammaCalled =>
    /\ CandidateThenUniform
    /\ LastPassReturned
    /\ \A i \in 1..Len(sample.passes) :
         sample.passes[i].rejected <=> LessReal(sample.passes[i].ratio, sample.passes[i].U)

\* a call that rejected a candidate whose ratio was just below U and
\* returned the next, whose ratio was equal to U
C20_Witness ==
  /\ GammaCalled
  /\ sample.returned
  /\ Len(sample.passes) = 2
  /\ sample.passes[1].ratio = Below(sample.passes[1].U) /\ sample.passes[1].rejected
  /\ sample.passes[2].ratio = sample.passes[2].U /\ ~sample.passes[2].rejected
  /\ sample.out.quotient = sample.passes[2].x

----------------------------------------------------------------------------
(* GetState_JumpVec: the state strings of an engine and of its jumps *)

RECURSIVE GetState_JumpVecLoop(_, _, _, _)

\* ++i once the state is pushed and the engine has jumped
GetState_JumpVecNext(e, stateVec, i, numThreads) ==
  CASE e.gen.p \in Index /\ Len(stateVec) = i -> GetState_JumpVecLoop(e, stateVec, i, numThreads)

\* the loop with its two statements exchanged: this->Jump(), then
\* stateVec.push_back(GetState())
GetState_JumpVecJumpFirst(e, stateVec, i, numThreads) ==
  IF i < numThreads
    THEN GetState_JumpVecNext([e EXCEPT !.gen = Jump(@)],
                              Append(stateVec, WriteState_ToStream([e EXCEPT !.gen = Jump(@)])),
                              i + 1, numThreads)
  ELSE [stateVec |-> stateVec, eng |-> e]

\* for(i = 0; i < numThreads; ++i) { stateVec.push_back(GetState()); this->Jump(); }
GetState_JumpVecLoop(e, stateVec, i, numThreads) ==
  IF i < numThreads
    THEN GetState_JumpVecNext([e EXCEPT !.gen = Jump(@)],
                              Append(stateVec, WriteState_ToStream(e)), i + 1, numThreads)
  ELSE [stateVec |-> stateVec, eng |-> e]

\* GetState_JumpVec(numThreads): [stateVec, eng]
GetState_JumpVec(e, numThreads) == GetState_JumpVecLoop(e, << >>, 0, numThreads)

\* the most state strings asked of GetState_JumpVec
MaxThreads == 3

\* bit cache positions the engine is found at: new, one bit used, used up
VecPositions == {0, 1, BitsPerWord}

VecInit ==
  /\ \E p0 \in StartIndex, used \in VecPositions : eng = EngineAt(TestWord(3, 3), p0, used)
  /\ copy = NoCopy
  /\ text = NoText
  /\ last = [op |-> "none", error |-> NoError, before |-> << >>, out |-> << >>]
  /\ count = NoCount
  /\ GenIdle
  /\ UnevenIdle
  /\ DistIdle

\* the engine and the record of GetState_JumpVec with the result `vec`
VecReturned(numThreads, vec) ==
  /\ eng' = vec.eng
  /\ last' = [op |-> "GetState_JumpVec", error |-> NoError, before |-> <<eng, numThreads>>,
              out |-> vec.stateVec]

\* eng.GetState_JumpVec(numThreads)
VecJump ==
  /\ last.op = "none"
  /\ \E numThreads \in 0..MaxThreads : VecReturned(numThreads, GetState_JumpVec(eng, numThreads))
  /\ count' = [count EXCEPT !.jump = @ + 1]
  /\ UNCHANGED <<copy, text, genVars, unevenVars, distVars>>

\* a thread seeds its own engine from the i-th state string:
\* engine other; other.Seed_FromString(stateVec[i])
VecThread ==
  /\ last.op = "GetState_JumpVec" /\ ~copy.made
  /\ \E i \in 1..Len(last.out) :
       copy' = [made |-> TRUE, out |-> <<i>>,
                eng |-> Seed_FromString(Construct(TestState(3), Zero), last.out[i]).eng]
  /\ UNCHANGED <<eng, text, last, count, genVars, unevenVars, distVars>>

VecNext == VecJump \/ VecThread

SpecVec == VecInit /\ [][VecNext]_vars

\* the engine GetState_JumpVec was called on, after n calls of Jump()
VecJumped(n) == [last.before[1] EXCEPT !.gen = JumpChain(@, n)[n + 1]]

\* C21: GetState_JumpVec(k) returns k state strings, the i-th of them
\* (counted from 0) the state of the engine after i calls of Jump() from the
\* state it was called in, the first that state itself; the engine is left
\* after k jumps, in the state of none of the strings; a thread seeded from
\* the i-th string holds the engine after i jumps.
C21_JumpVecStates ==
  last.op = "GetState_JumpVec" =>
    /\ Len(last.out) = last.before[2]
    /\ \A i \in 1..Len(last.out) :
         /\ last.out[i] = WriteState_ToStream(VecJumped(i - 1))
         /\ last.out[i] # WriteState_ToStream(eng)
         /\ \A j \in 1..(i - 1) : last.out[j] # last.out[i]
    /\ eng = VecJumped(last.before[2])
    /\ copy.made =>
         /\ copy.eng = VecJumped(copy.out[1] - 1)
         /\ copy.eng.gen # eng.gen

\* three strings asked of an engine at p = 15 with its bit cache used up,
\* and a thread seeded from the last of them
C21_Witness ==
  /\ last.op = "GetState_JumpVec"
  /\ last.before[2] = 3 /\ Len(last.out) = 3
  /\ last.before[1].gen.p = 15 /\ last.before[1].cacheMask = replenishBitCache
  /\ copy.made /\ copy.out = <<3>>
  /\ copy.eng.gen = Jump(Jump(last.before[1].gen))

----------------------------------------------------------------------------
(* Jump() pass by pass: the two nested loops run one pass of the inner loop *)
(* at a time, between calls of operator()()                                  *)

\* a state with one bit set: bit b of state[w]
SparseState(w, b) ==
  SubSeq([k \in 1..state_size |-> IF k = w + 1 THEN ShiftLeft(WordOf(1), b) ELSE Zero],
         1, state_size)

\* generators with one bit set: <<w, b, p>>, the bit in the word read as s0,
\* in the word read as s1, and elsewhere
SparseStarts == {<<0, 0, 0>>, <<1, 63, 0>>, <<0, 33, 15>>, <<7, 31, 5>>}

\* no jump begun: [active, done, calls, t, before], the passes done, the
\* calls of operator()() made in them, the accumulator t, and the generator
\* Jump() was called on
NoJump ==
  [active |-> FALSE, done |-> 0, calls |-> 0, t |-> ZeroState,
   before |-> [state |-> ZeroState, p |-> 0]]

StepInit ==
  /\ \/ \E p0 \in StartIndex : gen = [state |-> TestState(p0 + 1), p |-> p0]
     \/ \E s \in SparseStarts : gen = [state |-> SparseState(s[1], s[2]), p |-> s[3]]
  /\ jumped = <<gen>>
  /\ nNext = 0
  /\ nJump = 0
  /\ call = <<"none", 0>>
  /\ scan = NoJump
  /\ draw = NoDraw
  /\ EngIdle
  /\ DistIdle

\* gen(), between jumps
StepCall ==
  /\ ~scan.active
  /\ nNext < MaxNext
  /\ gen' = Advance(gen)
  /\ nNext' = nNext + 1
  /\ call' = <<"next", 0>>
  /\ UNCHANGED <<jumped, nJump, scan, draw, engVars, distVars>>

\* gen.Jump() is entered: uint64_t t[16] = { 0 };
StepJumpBegin ==
  /\ ~scan.active
  /\ nJump < MaxJump
  /\ scan' = [NoJump EXCEPT !.active = TRUE, !.before = gen]
  /\ call' = <<"Jump", 0>>
  /\ UNCHANGED <<gen, jumped, nNext, nJump, draw, engVars, distVars>>

\* the generator and the record of the jump after a pass left <<t, gen>>;
\* every call of operator()() moves p on by one
StepPassed(tg) ==
  /\ gen' = tg[2]
  /\ scan' = [scan EXCEPT !.t = tg[1], !.done = @ + 1,
                          !.calls = @ + ((tg[2].p + state_size - gen.p) % state_size)]

\* one pass of the inner loop: if(JUMP[i] & 1ULL << b) ...; (*this)();
StepJumpPass ==
  /\ scan.active
  /\ scan.done < JumpPassCount
  /\ StepPassed(JumpPass(scan.done, <<scan.t, gen>>))
  /\ UNCHANGED <<jumped, nNext, nJump, call, draw, engVars, distVars>>

\* the loops are over: state[(j + p) & 15] = t[j], and Jump() returns
StepJumpEnd ==
  /\ scan.active
  /\ scan.done = JumpPassCount
  /\ gen' = StoreJumped(<<scan.t, gen>>)
  /\ scan' = [scan EXCEPT !.active = FALSE]
  /\ nJump' = nJump + 1
  /\ UNCHANGED <<jumped, nNext, call, draw, engVars, distVars>>

StepNext == StepCall \/ StepJumpBegin \/ StepJumpPass \/ StepJumpEnd

SpecStep == StepInit /\ [][StepNext]_vars

\* Jump() has just returned
JumpReturned == call[1] = "Jump" /\ ~scan.active /\ scan.done = JumpPassCount

\* C22: every pass of the loops of Jump() calls operator()() once, whether
\* or not the bit of JUMP it looks at is set, so that a call of Jump() makes
\* exactly 16 * 64 = 1024 of them; p is back at its value before the call
\* when the accumulator is stored, t[j] at state[(j + p) & 15] for that p.
C22_JumpCallsAndIndex ==
  /\ scan.calls = scan.done
  /\ scan.done <= JumpPassCount
  /\ scan.active => gen.p = (scan.before.p + scan.done) % state_size
  /\ JumpReturned =>
       /\ scan.calls = 1024
       /\ gen.p = scan.before.p
       /\ \A j \in Index : gen.state[((j + scan.before.p) % state_size) + 1] = scan.t[j + 1]
       /\ gen = Jump(scan.before)

\* a jump from p = 15 has returned; its first pass found bit 0 of JUMP[0]
\* set and its second found bit 1 clear
C22_Witness ==
  /\ JumpReturned
  /\ scan.before.p = 15 /\ gen.p = 15
  /\ scan.calls = 1024
  /\ JumpBit(0, 0) /\ ~JumpBit(0, 1)

\* C23: a generator whose sixteen words are not all zero never holds
\* sixteen zero words, after any calls of operator()() and Jump() and at
\* every pass inside Jump(); operator()() is one-to-one, the word it
\* replaces being recovered from the word it stores and s0.
C23_NeverAllZero ==
  /\ gen.state # ZeroState
  /\ Advance(gen).state # ZeroState
  /\ Unscramble(Advance(gen).state[Advance(gen).p + 1], gen.state[gen.p + 1])
       = gen.state[Advance(gen).p + 1]

\* the second jump has returned on a generator that started with the single
\* bit 2^63 in the word operator()() scrambles first, a call in between
C23_Witness ==
  /\ JumpReturned
  /\ nJump = 2 /\ nNext = 1
  /\ jumped[1] = [state |-> SparseState(1, 63), p |-> 0]
  /\ gen.state # ZeroState

----------------------------------------------------------------------------
(* An engine in use seeded anew from a minimal state string *)

\* the entropy of a seeding: dense words, or a single bit
Entropies == {TestState(2), SparseState(3, 40)}

ReseedInit ==
  /\ \E junk \in IndeterminateWords, p0 \in StartIndex, used \in ClonePositions :
       eng = EngineAt(junk, p0, used)
  /\ copy = NoCopy
  /\ text = NoText
  /\ last = [op |-> "none", error |-> NoError, before |-> << >>, out |-> << >>]
  /\ count = NoCount
  /\ GenIdle
  /\ UnevenIdle
  /\ DistIdle

\* eng.Seed(): the minimal state string of sixteen words of entropy
ReseedEntropy ==
  /\ count.seed < MaxSeeds
  /\ \E entropy \in Entropies :
       /\ eng' = Seed(eng, entropy)
       /\ last' = [op |-> "Seed", error |-> NoError, before |-> <<eng>>, out |-> entropy]
  /\ count' = [count EXCEPT !.seed = @ + 1]
  /\ UNCHANGED <<copy, text, genVars, unevenVars, distVars>>

\* eng.Seed_FromString(text), the text sixteen words and the count 16
ReseedMinimal ==
  /\ count.seed < MaxSeeds
  /\ \E entropy \in Entropies :
       /\ eng' = Seed_FromString(eng, MinimalString(entropy)).eng
       /\ last' = [op |-> "Seed_FromString",
                   error |-> Seed_FromString(eng, MinimalString(entropy)).error,
                   before |-> <<eng>>, out |-> entropy]
  /\ count' = [count EXCEPT !.seed = @ + 1]
  /\ UNCHANGED <<copy, text, genVars, unevenVars, distVars>>

\* eng.RandBool()
ReseedFlip ==
  /\ count.bool < MaxSeeds
  /\ Flipped("RandBool", RandBool(eng).eng, <<RandBool(eng).decision>>)
  /\ UNCHANGED <<copy, text, genVars, unevenVars, distVars>>

\* eng()
ReseedDraw ==
  /\ count.raw < MaxRaw
  /\ eng' = RawDraw(eng, eng.gen.state[eng.gen.p + 1])
  /\ last' = [op |-> "raw", error |-> NoError, before |-> <<eng>>, out |-> << >>]
  /\ count' = [count EXCEPT !.raw = @ + 1]
  /\ UNCHANGED <<copy, text, genVars, unevenVars, distVars>>

ReseedNext == ReseedEntropy \/ ReseedMinimal \/ ReseedFlip \/ ReseedDraw

SpecReseed == ReseedInit /\ [][ReseedNext]_vars

\* the last operation seeded the engine from a minimal state string
Reseeded == last.op \in {"Seed", "Seed_FromString"}

\* the engine as a seeding from a minimal state string of `entropy` leaves it
FreshlySeeded(e, entropy) ==
  /\ e.gen = [state |-> entropy, p |-> 0]
  /\ e.cacheMask = replenishBitCache

\* C24: a seeding from a minimal state string (sixteen words and the count
\* 16), as Seed() makes it, raises no error, stores the words, sets p = 0 and
\* sets cacheMask to the value that makes RandBool refill, whatever p,
\* bitCache and cacheMask were; the RandBool after it draws a word from the
\* generator and decides on the top bit of that word.
C24_MinimalSeedResets ==
  /\ Reseeded =>
       /\ last.error = NoError
       /\ FreshlySeeded(eng, last.out)
       /\ eng.bitCache = last.before[1].bitCache
       /\ RandBool(eng).eng.gen = Advance(eng.gen)
  /\ (last.op = "RandBool" /\ \E entropy \in Entropies : FreshlySeeded(last.before[1], entropy)) =>
       /\ eng.gen = Advance(last.before[1].gen)
       /\ eng.bitCache = Result(eng.gen)
       /\ eng.cacheMask = ShiftRight(TopBit, 1)
       /\ last.out = <<Bit(eng.bitCache, word_size - 1) = 1>>

\* Seed() on an engine that was at p = 12, a word drawn last, and in the
\* middle of its cached bits
C24_Witness ==
  /\ last.op = "Seed"
  /\ count.raw = 1
  /\ last.before[1].gen.p = 12
  /\ last.before[1].cacheMask = ShiftRight(TopBit, 1)
  /\ last.before[1].bitCache # Zero
  /\ eng.gen.p = 0 /\ eng.cacheMask = replenishBitCache

----------------------------------------------------------------------------
(* The top-up of an uneven draw: its shift counts and the value it makes *)

\* the last draw was uneven and needed the top-up
ToppedUp == draw.kind \in {"U_uneven", "HalfU_uneven"} /\ draw.topUp # << >>

\* C25: at assert(shiftLeft < numBitsOfEntropyRequired) the count of left
\* shifts is below numBitsOfEntropyRequired, whatever first word below
\* minEntropy and whatever words after it were drawn; randUint is then at
\* least minEntropy.
C25_ShiftLeftBelowRequired ==
  ToppedUp =>
    /\ Less(draw.word, minEntropy)
    /\ draw.topUp[1].shiftLeft \in 0..(numBitsOfEntropyRequired - 1)
    /\ ~Less(draw.topUp[1].placed, minEntropy)

\* the word 1 after fifteen zero words: shifted left 54 times
C25_Witness ==
  /\ ToppedUp
  /\ draw.topUp[1].zeros = state_size - 1
  /\ draw.topUp[1].shiftLeft = numBitsOfEntropyRequired - 1
  /\ draw.topUp[1].placed = minEntropy

\* C26 (as claimed): the word drawn for the gap is shifted right by
\* numBitsPRNG - shiftLeft, a count from 1 to numBitsPRNG - 1, so that only
\* the shiftLeft vacated low bits of randUint can change; also when a zero
\* word was drawn and the word drawn after it is at least minEntropy.
C26_FillShiftWithinWord ==
  ToppedUp =>
    /\ draw.topUp[1].shiftRight \in 1..(numBitsPRNG - 1)
    /\ ShiftRight(draw.topUp[1].mantissa, draw.topUp[1].shiftLeft)
         = ShiftRight(draw.topUp[1].placed, draw.topUp[1].shiftLeft)

\* the zero words a topped-up draw went through, by the words it used: the
\* zeros, the word that ended them, the word for the gap
ZeroWordsUsed == IF draw.word = Zero THEN draw.used - 2 ELSE 0

\* C27: an uneven draw that went through Z zero words (the first word among
\* them; Z = 0 if the first word is not zero), then L left shifts, and ended
\* with the integer mantissa m returns m * 2^-(numBitsPRNG * (1 + Z) + L),
\* m converted to real_t and scaled in double arithmetic; a draw whose first
\* word is at least minEntropy returns (word | 1) * 2^-numBitsPRNG.
C27_ValueIsScaledMantissa ==
  draw.kind = "U_uneven" =>
    IF draw.topUp = << >>
      THEN /\ ~Less(draw.word, minEntropy)
           /\ draw.used = 1
           /\ draw.value = TimesPow2(RealOf(OR(draw.word, WordOf(1))), 0 - numBitsPRNG)
    ELSE /\ Less(draw.word, minEntropy)
         /\ draw.used = ZeroWordsUsed + 2
         /\ draw.topUp[1].zeros = ZeroWordsUsed
         /\ Bit(draw.topUp[1].mantissa, 0) = 1
         /\ ZeroWordsUsed = 0 =>
              draw.topUp[1].placed = ShiftLeft(draw.word, draw.topUp[1].shiftLeft)
         /\ draw.value = TimesPow2(RealOf(draw.topUp[1].mantissa),
                                   0 - (numBitsPRNG * (1 + ZeroWordsUsed)
                                          + draw.topUp[1].shiftLeft))

\* three zero words, then 255 shifted left 47 times: 2^-(64 * 4 + 47) times
\* a mantissa of 55 bits
C27_Witness ==
  /\ draw.kind = "U_uneven"
  /\ draw.word = Zero /\ draw.used = 5
  /\ draw.topUp[1].zeros = 3 /\ draw.topUp[1].shiftLeft = 47
  /\ draw.value.e = 2 - (numBitsPRNG * 4 + 47)

----------------------------------------------------------------------------
(* standard_normal::GetSample, which normal and log_normal inherit, among   *)
(* single-value calls of the same sampler                                    *)

RECURSIVE GetSampleLoop(_, _, _, _, _, _, _)

\* sample.push_back(pair.x); sample.push_back(pair.y); ++i
GetSamplePushed(kind, pair, smp, twos, i, loopSize, wraps) ==
  CASE pair.eng.gen.p \in Index ->
    GetSampleLoop(kind, pair.eng, smp \o <<pair.x, pair.y>>, twos \o <<pair.passes>>,
                  i + 1, loopSize, wraps)

\* for(i = 0; i < loopSize; ++i) { two const pair = this->GetTwo(gen); ... }
GetSampleLoop(kind, e, smp, twos, i, loopSize, wraps) ==
  IF i < loopSize
    THEN GetSamplePushed(kind, GetTwo(kind, e, wraps), smp, twos, i, loopSize, wraps)
  ELSE [sample |-> smp, eng |-> e, twos |-> twos]

\* if(sample.size() > sampleSize) sample.pop_back(); return sample;
GetSamplePopped(d, sampleSize, loop) ==
  [out |-> IF Len(loop.sample) > sampleSize THEN SubSeq(loop.sample, 1, Len(loop.sample) - 1)
           ELSE loop.sample,
   dist |-> d, eng |-> loop.eng, twos |-> loop.twos]

RECURSIVE BaseSampleLoop(_, _, _, _, _, _, _)

BaseSamplePushed(one, smp, twos, i, sampleSize, wraps) ==
  CASE one.eng.gen.p \in Index ->
    BaseSampleLoop(one.dist, one.eng, Append(smp, one.out), twos \o one.twos, i + 1, sampleSize, wraps)

\* for(i = 0; i < sampleSize; ++i) sample.push_back((*this)(gen));
BaseSampleLoop(d, e, smp, twos, i, sampleSize, wraps) ==
  IF i < sampleSize THEN BaseSamplePushed(SingleValue(d, e, wraps), smp, twos, i, sampleSize, wraps)
  ELSE [out |-> smp, dist |-> d, eng |-> e, twos |-> twos]

\* distribution<T>::GetSample, which standard_normal redefines: sampleSize
\* single-value calls
GetSampleOfBase(d, sampleSize, e, wraps) == BaseSampleLoop(d, e, << >>, << >>, 0, sampleSize, wraps)

\* standard_normal::GetSample(sampleSize, gen): [out, dist, eng, twos], with
\* loopSize = (sampleSize + 1) / 2
GetSample(d, sampleSize, e, wraps) ==
  GetSamplePopped(d, sampleSize,
                  GetSampleLoop(d.kind, e, << >>, << >>, 0, (sampleSize + 1) \div 2, wraps))

\* the largest sample asked for
MaxSample == 3

\* the loops the engine's first words make
BatchLoops == {<<"inside">>, <<"outside", "under">>, <<"edgeBelow", "edgeLeast">>}

\* no call made: [op, calls, n, out, twos, before, log], with before the
\* sampler and the engine before the last call and log the calls so far, each
\* with the flag and the cache it left
NoBatch ==
  [op |-> "none", calls |-> 0, n |-> 0, out |-> << >>, twos |-> << >>, before |-> << >>,
   log |-> << >>]

BatchInit ==
  /\ \E kind \in NormalKinds :
       dist = [kind |-> kind, valueCached |-> FALSE, cache |-> NoVariate]
  /\ \E loop \in BatchLoops, cacheMask \in {replenishBitCache, ShiftLeft(WordOf(1), 31)} :
       eng = EngineDelivering(WordsOfPasses(loop), cacheMask)
  /\ sample = NoBatch
  /\ copy = NoCopy
  /\ text = NoText
  /\ last = [op |-> "none", error |-> NoError, before |-> << >>, out |-> << >>]
  /\ count = NoCount
  /\ GenIdle
  /\ UnevenIdle

\* the sampler, the engine and the record after the call `op` returned `did`
Batched(op, calls, n, did) ==
  /\ dist' = did.dist
  /\ eng' = did.eng
  /\ sample' = [op |-> op, calls |-> calls, n |-> n, out |-> did.out, twos |-> did.twos,
                before |-> <<dist, eng>>,
                log |-> Append(sample.log,
                               [op |-> op, valueCached |-> did.dist.valueCached,
                                cache |-> did.dist.cache])]

\* dist(gen)
BatchCall ==
  /\ sample.calls < MaxCalls
  /\ \E wraps \in BOOLEAN : Batched("operator()", sample.calls + 1, 1, SingleValue(dist, eng, wraps))
  /\ UNCHANGED <<copy, text, last, count, genVars, unevenVars>>

\* dist.GetSample(sampleSize, gen), once in a behaviour
BatchSample ==
  /\ \A i \in 1..Len(sample.log) : sample.log[i].op # "GetSample"
  /\ \E sampleSize \in 0..MaxSample, wraps \in BOOLEAN :
       Batched("GetSample", sample.calls, sampleSize, GetSample(dist, sampleSize, eng, wraps))
  /\ UNCHANGED <<copy, text, last, count, genVars, unevenVars>>

BatchNext == BatchCall \/ BatchSample

SpecBatch == BatchInit /\ [][BatchNext]_vars

\* k two-value steps in a row from the engine e: the values they return, in
\* order, the engine they leave, and their number
RECURSIVE TwoValueSteps(_, _, _, _, _)
TwoValueStepsAfter(kind, pair, k, wraps, done) ==
  CASE pair.eng.gen.p \in Index ->
    TwoValueSteps(kind, pair.eng, k - 1, wraps,
                  [values |-> done.values \o <<pair.x, pair.y>>, steps |-> done.steps + 1])

TwoValueSteps(kind, e, k, wraps, done) ==
  IF k = 0 THEN [values |-> done.values, eng |-> e, steps |-> done.steps]
  ELSE TwoValueStepsAfter(kind, GetTwo(kind, e, wraps), k, wraps, done)

\* ceil(n / 2)
HalfRoundedUp(n) == (n \div 2) + (n % 2)

\* C28: GetSample(n, gen) returns n values made by ceil(n / 2) two-value
\* steps in a row, the values of the steps in order without the last when n
\* is odd, and leaves the cached value and its flag as they were; the
\* single-value call after it, if a value was cached, returns that value
\* without drawing from the engine.
C28_BatchBypassesCache ==
  /\ sample.op = "GetSample" =>
       /\ Len(sample.out) = sample.n
       /\ Len(sample.twos) = HalfRoundedUp(sample.n)
       /\ dist = sample.before[1]
       /\ \E wraps \in BOOLEAN :
            LET steps == TwoValueSteps(dist.kind, sample.before[2], HalfRoundedUp(sample.n), wraps,
                                       [values |-> << >>, steps |-> 0])
            IN  /\ sample.out = SubSeq(steps.values, 1, sample.n)
                /\ eng = steps.eng
  /\ (sample.op = "operator()" /\ sample.before[1].valueCached) =>
       /\ sample.out = sample.before[1].cache
       /\ sample.twos = << >>
       /\ eng = sample.before[2]
       /\ ~dist.valueCached

\* a single-value call cached a value, a batch of three ran two two-value
\* steps, and the single-value call after it returned the value cached
\* before the batch
C28_Witness ==
  /\ Len(sample.log) = 3
  /\ sample.log[1].op = "operator()" /\ sample.log[1].valueCached
  /\ sample.log[2].op = "GetSample"
  /\ sample.log[2].valueCached /\ sample.log[2].cache = sample.log[1].cache
  /\ sample.op = "operator()"
  /\ sample.out = sample.log[1].cache
  /\ sample.before[1].kind = "normal"
  /\ sample.before[2].gen # EngineDelivering(WordsOfPasses(<<"inside">>), replenishBitCache).gen

----------------------------------------------------------------------------
(* An engine, a copy of it jumped once, and draws, jumps and coin flips on  *)
(* either                                                                    *)

\* other.Seed_FromEngine(first), with the state string instead of the engine:
\* the generator without the bit cache
Seed_FromState(other, first) ==
  Seed_FromString(other, MinimalString(first.gen.state) \o <<Numeral(first.gen.p)>>).eng

\* other.Seed_FromEngine(first): deref(other).assign(deref(first))
Seed_FromEngine(other, first) == first

\* engList[i].Seed_FromEngine(engList[i-1]); engList[i].Jump()
ParallelNext(assigned) == [assigned EXCEPT !.gen = Jump(@)]

\* coin flips of the two engines after the copy was made
MaxFlips == 4

\* bit cache positions the engine is copied at
ParallelPositions == {1, BitsPerWord - 1}

\* calls of Jump(nTimes)
ParallelJumps == {0, 2}

ParallelInit ==
  /\ \E used \in ParallelPositions : eng = EngineAt(TestWord(3, 3), state_size - 1, used)
  /\ copy = NoCopy
  /\ text = NoText
  /\ last = [op |-> "none", error |-> NoError, before |-> << >>, out |-> << >>]
  /\ count = NoCount
  /\ GenIdle
  /\ UnevenIdle
  /\ DistIdle

\* engine(False), then Seed_FromEngine and Jump(): the second engine of the
\* list; out keeps the coin flips of eng and of the copy made from here on
ParallelCopy ==
  /\ ~copy.made
  /\ copy' = [made |-> TRUE,
              eng |-> ParallelNext(Seed_FromEngine(Construct(ZeroState, Zero), eng)),
              out |-> << << >>, << >> >>]
  /\ last' = [op |-> "copy", error |-> NoError, before |-> <<"eng", eng>>, out |-> << >>]
  /\ UNCHANGED <<eng, text, count, genVars, unevenVars, distVars>>

Engines == {"eng", "copy"}

EngineOf(who) == IF who = "eng" THEN eng ELSE copy.eng

\* the engine `who` after the operation op, which left it as `after` and its
\* coin flips as `flips`
ParallelDid(op, who, after, flips) ==
  /\ eng' = IF who = "eng" THEN after ELSE eng
  /\ copy' = [copy EXCEPT !.eng = IF who = "copy" THEN after ELSE @,
                          !.out[IF who = "eng" THEN 1 ELSE 2] = @ \o flips]
  /\ last' = [op |-> op, error |-> NoError, before |-> <<who, EngineOf(who)>>, out |-> << >>]

\* e(), e.U_even(), e.U_uneven(), e.HalfU_uneven(), if nothing was drawn or
\* jumped since the copy
ParallelDraw ==
  /\ copy.made /\ count.raw + count.jump = 0
  /\ \E who \in Engines, kind \in Draws, wraps \in BOOLEAN :
       ParallelDid(kind, who, Draw(kind, EngineOf(who), wraps).eng, << >>)
  /\ count' = [count EXCEPT !.raw = @ + 1]
  /\ UNCHANGED <<text, genVars, unevenVars, distVars>>

\* e.Jump(), if nothing was drawn or jumped since the copy
ParallelJump ==
  /\ copy.made /\ count.raw + count.jump = 0
  /\ \E who \in Engines :
       ParallelDid("Jump", who, [EngineOf(who) EXCEPT !.gen = Jump(@)], << >>)
  /\ count' = [count EXCEPT !.jump = @ + 1]
  /\ UNCHANGED <<text, genVars, unevenVars, distVars>>

\* e.Jump(nTimes), if nothing was drawn or jumped since the copy
ParallelJumpTimes ==
  /\ copy.made /\ count.raw + count.jump = 0
  /\ \E who \in Engines, nTimes \in ParallelJumps :
       ParallelDid("JumpTimes", who, [EngineOf(who) EXCEPT !.gen = JumpTimes(@, nTimes)], << >>)
  /\ count' = [count EXCEPT !.jump = @ + 1]
  /\ UNCHANGED <<text, genVars, unevenVars, distVars>>

\* the coin flip `flipped` of the engine e, which came with the sign
\* `negative`: what RandBool returned, whether ApplyRandomSign turned the
\* sign, and whether the bit cache was refilled
FlipOf(e, negative, flipped) ==
  [decision |-> flipped.out[1], turned |-> flipped.out[2] # negative,
   refilled |-> flipped.eng.gen # e.gen]

\* e.RandBool() or e.ApplyRandomSign(victim)
ParallelFlip ==
  /\ copy.made
  /\ \E who \in Engines, negative \in BOOLEAN :
       /\ count.bool < MaxFlips
       /\ ParallelDid("flip", who, Flip(EngineOf(who), negative).eng,
                      <<FlipOf(EngineOf(who), negative, Flip(EngineOf(who), negative))>>)
  /\ count' = [count EXCEPT !.bool = @ + 1]
  /\ UNCHANGED <<text, genVars, unevenVars, distVars>>

ParallelStep == ParallelCopy \/ ParallelDraw \/ ParallelJump \/ ParallelJumpTimes \/ ParallelFlip

SpecParallel == ParallelInit /\ [][ParallelStep]_vars

\* none of the first k coin flips refilled the bit cache
NoRefillIn(flips, k) == \A i \in 1..k : ~flips[i].refilled

\* C29: a raw draw, an even, uneven or half-range uneven draw, Jump() and
\* Jump(n) leave bitCache and cacheMask of the engine as they were, and a coin
\* flip changes cacheMask; so the copy of an engine that was jumped once has
\* the bit cache of the original and another generator, and its k-th coin
\* flip is the k-th coin flip of the original as long as neither has refilled
\* its bit cache, whatever was drawn from or jumped in either in between.
C29_CopySharesCoinFlips ==
  /\ last.op \in Draws \union {"Jump", "JumpTimes"} =>
       /\ EngineOf(last.before[1]).bitCache = last.before[2].bitCache
       /\ EngineOf(last.before[1]).cacheMask = last.before[2].cacheMask
  /\ last.op = "flip" => EngineOf(last.before[1]).cacheMask # last.before[2].cacheMask
  /\ last.op = "copy" =>
       /\ copy.eng.bitCache = eng.bitCache /\ copy.eng.cacheMask = eng.cacheMask
       /\ copy.eng.gen # eng.gen
  /\ copy.made =>
       \A k \in 1..Len(copy.out[1]) :
         (/\ k <= Len(copy.out[2])
          /\ NoRefillIn(copy.out[1], k) /\ NoRefillIn(copy.out[2], k))
         => /\ copy.out[1][k].decision = copy.out[2][k].decision
            /\ copy.out[1][k].turned = copy.out[2][k].turned

\* the engine copied one coin flip before its refill, the copy jumped once
\* more, and two coin flips of each: the first from the bit cache they share,
\* the second from the word each drew, which differ
C29_Witness ==
  /\ copy.made /\ count.jump = 1
  /\ Len(copy.out[1]) = 2 /\ Len(copy.out[2]) = 2
  /\ ~copy.out[1][1].refilled /\ ~copy.out[2][1].refilled
  /\ copy.out[1][2].refilled /\ copy.out[2][2].refilled
  /\ copy.out[1][2].decision # copy.out[2][2].decision
  /\ last.op = "flip"
  /\ eng.gen = Advance(EngineAt(TestWord(3, 3), state_size - 1, BitsPerWord - 1).gen)
  /\ copy.eng.gen # Advance(Jump(EngineAt(TestWord(3, 3), state_size - 1, BitsPerWord - 1).gen))

----------------------------------------------------------------------------
(* The uneven draw with the loop that redraws zero words run one pass at a  *)
(* time                                                                      *)

\* redraws counted; the count stays there when more are made
MaxCounted == 16

\* the word after the zero words
RedrawnWords == {WordOf(1), minEntropy, MaxWord}

\* the words a generator is made to deliver: `zeros` zero words and the word
\* after them; after state_size - 1 zero words the generator's own next word
RedrawStart(zeros, word) ==
  Delivering(IF zeros < state_size - 1 THEN Zeros(zeros) \o <<word>> ELSE Zeros(zeros))

\* no draw begun: [stage, redraws, randUint, before], with stage the place in
\* the draw ("start", "loop", "shift" after the loop, "done"), redraws the
\* words drawn by the loop, and before the generator the draw began with
NoRedraw(g) == [stage |-> "start", redraws |-> 0, randUint |-> Zero, before |-> g]

RedrawInit ==
  /\ \/ \E zeros \in ZeroRuns, word \in RedrawnWords : gen = RedrawStart(zeros, word)
     \/ \E p0 \in StartIndex : gen = [state |-> TestState(p0 + 1), p |-> p0]
     \/ \E p0 \in StartIndex : gen = [state |-> ZeroState, p |-> p0]
  /\ scan = NoRedraw(gen)
  /\ draw = NoDraw
  /\ jumped = << >>
  /\ nNext = 0
  /\ nJump = 0
  /\ call = <<"none", 0>>
  /\ EngIdle
  /\ DistIdle

\* the loop redrawing until the highest bit of the word is set
RedrawWhileBelow(word) == Less(word, TopBit)

\* while((randUint = (*this)()) == 0)
RedrawAgain(word) == word = Zero

\* uint64_t randUint = (*this)(); and, unless randUint << 1 is zero below
\* minEntropy, the rest of the draw
RedrawFirst ==
  /\ scan.stage = "start"
  /\ \E wraps \in BOOLEAN :
       IF ShiftLeft(Result(Advance(gen)), 1) = Zero /\ Less(Result(Advance(gen)), minEntropy)
         THEN /\ gen' = Advance(gen)
              /\ scan' = [scan EXCEPT !.stage = "loop", !.randUint = Result(Advance(gen))]
       ELSE /\ gen' = U_uneven([kind |-> "gen", gen |-> gen], wraps).src.gen
            /\ scan' = [scan EXCEPT !.stage = "done", !.randUint = Result(Advance(gen))]
  /\ UNCHANGED <<jumped, nNext, nJump, call, draw, engVars, distVars>>

\* one pass of do downScale *= scaleToU; while((randUint = (*this)()) == 0);
RedrawPass ==
  /\ scan.stage = "loop"
  /\ gen' = Advance(gen)
  /\ scan' = [scan EXCEPT !.stage = IF RedrawAgain(Result(Advance(gen))) THEN "loop" ELSE "shift",
                          !.redraws = IF @ < MaxCounted THEN @ + 1 ELSE @,
                          !.randUint = Result(Advance(gen))]
  /\ UNCHANGED <<jumped, nNext, nJump, call, draw, engVars, distVars>>

\* after the loop: the shifts, the word for the gap and the scaling
RedrawFinish ==
  /\ scan.stage = "shift"
  /\ \E wraps \in BOOLEAN :
       gen' = TopUpAfterZeros([zeros |-> scan.redraws, randUint |-> scan.randUint,
                               src |-> [kind |-> "gen", gen |-> gen]], wraps).src.gen
  /\ scan' = [scan EXCEPT !.stage = "done"]
  /\ UNCHANGED <<jumped, nNext, nJump, call, draw, engVars, distVars>>

RedrawNext == RedrawFirst \/ RedrawPass \/ RedrawFinish

\* the draw is straight-line code and loops of one thread: a step that can be
\* taken is taken.  This is WF_vars(RedrawNext) written out, with
\* scan.stage # "done" for ENABLED <<RedrawNext>>_vars: every step changes
\* the stage or the index p of the generator.
RedrawFair == []<>(scan.stage = "done") \/ []<><<RedrawNext>>_vars

SpecRedraw == RedrawInit /\ [][RedrawNext]_vars /\ RedrawFair

\* C30: an uneven draw begun in a generator state that is not all zero ends,
\* and its loop redraws at most state_size - 1 = 15 words; begun in the
\* all-zero state the draw enters the loop, never leaves it and goes on
\* drawing words.
C30_RedrawLoopEnds ==
  /\ [](scan.before.state # ZeroState => scan.redraws <= state_size - 1)
  /\ [](scan.before.state # ZeroState => <>(scan.stage = "done"))
  /\ [](scan.before.state = ZeroState => scan.stage \in {"start", "loop"})
  /\ [](scan.before.state = ZeroState =>
          /\ <>(scan.stage = "loop" /\ scan.redraws = MaxCounted /\ gen.p = 0)
          /\ <>(scan.stage = "loop" /\ scan.redraws = MaxCounted /\ gen.p # 0))

\* a draw that redrew fifteen words, the last of them not zero, and ended
C30_Witness ==
  /\ scan.stage = "done" /\ scan.redraws = state_size - 1
  /\ scan.randUint # Zero /\ scan.before.state # ZeroState

====
